---- MODULE Spec2Model ----
(***************************************************************************)
(* Resource caching and frame rendering core of the femtovg/OpenGL         *)
(* rendering backend (sixtyfps_runtime/rendering_backends/gl/lib.rs).      *)
(*                                                                         *)
(* The program state is kept in the variables below.  A handler of the     *)
(* source calls other functions that change state (the caches, the canvas, *)
(* the reference counts), so each function is an operator from a heap      *)
(* record h (the mutable state) to the heap after the call, or to          *)
(* [h |-> heap after, ret |-> returned value]; an action applies the       *)
(* handler's operator to the current state.                                *)
(***************************************************************************)
EXTENDS Integers, Sequences, FiniteSets, TLC

\* ---------------------------------------------------------------- bounds
\* CachedImage allocations (Rc::new) made during one run.
MaxImages == 2

\* GPU image ids the canvas hands out during one run.
MaxIds == MaxImages + 1

\* -------------------------------------------------------------- constants
DEFAULT_FONT_SIZE == 12
DEFAULT_FONT_WEIGHT == 400

\* Cargo feature "svg" of the crate (the #[cfg(feature = "svg")] blocks).
feature_svg == TRUE

\* ------------------------------------------------------------ input values
\* Strings are sequences of characters, so that ends_with / starts_with are
\* computed on the content.
png_path == <<"a", ".", "p", "n", "g">>
svg_path == <<"b", ".", "s", "v", "g">>
png_bytes == <<"P", "N", "G">>
svg_bytes == <<"<", "s", "v", "g", ">">>

\* A file the image decode service rejects (decode error).
corrupt_path == <<"c", ".", "p", "n", "g">>

\* Resource (sixtyfps_corelib::graphics::Resource): the four variants.
ResourceNone == [kind |-> "None", path |-> <<>>, addr |-> 0, bytes |-> <<>>]
AbsoluteFilePath(p) == [kind |-> "AbsoluteFilePath", path |-> p, addr |-> 0, bytes |-> <<>>]
EmbeddedData(a, b) == [kind |-> "EmbeddedData", path |-> <<>>, addr |-> a, bytes |-> b]
EmbeddedRgbaImage == [kind |-> "EmbeddedRgbaImage", path |-> <<>>, addr |-> 0, bytes |-> <<>>]

\* The values the source property of an item takes in the image specification.
Resources == {ResourceNone, AbsoluteFilePath(png_path), EmbeddedData(1, png_bytes)}

\* enum ImageCacheKey { Path(String), EmbeddedData(ByAddress<&'static [u8]>) }:
\* an embedded buffer is compared and hashed by its address.
ImageCacheKey_Path(p) == [tag |-> "Path", path |-> p, addr |-> 0]
ImageCacheKey_EmbeddedData(a) == [tag |-> "EmbeddedData", path |-> <<>>, addr |-> a]

AllPaths == {png_path, svg_path, corrupt_path}
AllAddrs == {1, 2, 3}
ImageCacheKeys == {ImageCacheKey_Path(p) : p \in AllPaths} \cup {ImageCacheKey_EmbeddedData(a) : a \in AllAddrs}

\* The items of the item tree that own a CachedRenderingData slot: image items
\* (Image, ClippedImage) and items drawn through draw_cached_pixmap.
ImageSlots == {"image1", "image2"}
PixmapSlots == {"pixmap1"}
Slots == ImageSlots \cup PixmapSlots

\* Target widths and heights of the items.
TargetLengths == {0, 50}

\* Pixel dimensions the decoder (or the browser) reports for a resource.
DecodedSize(r) == IF r.kind = "AbsoluteFilePath" THEN <<100, 50>> ELSE <<2, 2>>

\* Window sizes (physical pixels) the windowing system reports.
WindowSizes == {<<640, 480>>, <<800, 600>>}

\* ------------------------------------------------------------------ state
VARIABLES
    platform,             \* "native" or "wasm32": cfg(target_arch)
    windowed_context,     \* GLRendererData::windowed_context: "NotCurrent" / "Current" ("None" on wasm32)
    frame_open,           \* a GLItemRenderer returned by new_renderer is outstanding
    window_size,          \* window().inner_size()
    canvas_size,          \* the size the canvas was last set to
    images,               \* the Rc<CachedImage> allocations: strong count and ImageData
    allocated,            \* number of CachedImage allocations made so far
    image_cache,          \* GLRendererData::image_cache: key -> 0 (no entry) or the allocation a Weak points to
    item_graphics_cache,  \* per item slot: validity and the stored Option<ItemGraphicsCacheEntry>
    source,               \* the source property (a Resource) of each item
    canvas_images,        \* the canvas's image store: id -> <<w, h>>, or <<>> when the id is not allocated
    ids_created,          \* number of image ids the canvas has handed out
    delete_calls,         \* id -> number of delete_image calls made for it
    first_id,             \* allocation -> the id its first ensure_uploaded_to_gpu call returned (0: none yet)
    productions,          \* slot -> producer runs since the slot was last marked stale
    redraw_requested,     \* window.request_redraw() was called by an image completion callback
    panic,                \* "" or the reason the program panicked (unwrap, todo!)
    loaded_fonts,         \* FontCache: FontCacheKey -> 0 (no entry) or the femtovg::FontId
    fonts_created,        \* number of font ids the canvas has handed out
    app_fonts,            \* families registered with register_application_font_from_memory
    loader_runs,          \* FontCacheKey -> runs of the font loader (application, then system lookup) for it
    last_font,            \* the last font request, its scale factor and the GLFont returned for it
    last_draw,            \* the last draw primitive called: its item and what it issued on the canvas
    canvas_state          \* the canvas's state stack: transform and scissor of each saved state, the current one last

vars == <<platform, windowed_context, frame_open, window_size, canvas_size, images, allocated, image_cache, item_graphics_cache, source, canvas_images, ids_created, delete_calls, first_id, productions, redraw_requested, panic, loaded_fonts, fonts_created, app_fonts, loader_runs, last_font, last_draw, canvas_state>>

image_vars == <<platform, windowed_context, frame_open, window_size, canvas_size, images, allocated, image_cache, item_graphics_cache, source, canvas_images, ids_created, delete_calls, first_id, productions, redraw_requested, panic>>

font_vars == <<loaded_fonts, fonts_created, app_fonts, loader_runs, last_font>>

ImageIndex == 1..MaxImages
ImageIds == 1..MaxIds

\* ----------------------------------------------------------------- canvas
\* The state of a fresh canvas: identity transform, no scissor.  A
\* transform is the sequence of translate and scale commands applied, a
\* scissor the set of rectangles intersected.
DefaultCanvasState == [transform |-> <<>>, scissor |-> {}]

\* The top of the state stack with its scissor intersected with a rectangle.
IntersectScissor(stack, clip_rect) == [stack EXCEPT ![Len(stack)].scissor = @ \cup {clip_rect}]

\* The effect of one canvas command on the state stack: save pushes a copy
\* of the current state, restore pops it (and resets the last one),
\* translate and scale change the current transform, intersect_scissor
\* narrows the current scissor; every other command leaves the stack alone.
CanvasApply(cmd, stack) ==
    CASE cmd = "save" -> Append(stack, stack[Len(stack)])
      [] cmd = "restore" -> IF Len(stack) > 1 THEN SubSeq(stack, 1, Len(stack) - 1) ELSE <<DefaultCanvasState>>
      [] cmd \in {"translate", "scale"} -> [stack EXCEPT ![Len(stack)].transform = Append(@, cmd)]
      [] cmd = "intersect_scissor" -> IntersectScissor(stack, "selection_rect")
      [] OTHER -> stack

\* The state stack after the commands of a command log.
RECURSIVE RunCanvas(_, _)
RunCanvas(ops, stack) == IF ops = <<>> THEN stack ELSE RunCanvas(Tail(ops), CanvasApply(Head(ops), stack))

\* ------------------------------------------------------------------- heap
\* The mutable state the functions of the renderer work on.  full records
\* that a call needed more allocations or ids than the model's bounds allow:
\* an action whose result has full set is not taken.  gpu_ok is the one input
\* of the environment the calls read: whether the canvas can allocate an image
\* during this operation (create_image returns Ok) or not (Err).
HeapIn(gpu_ok) == [gpu_ok |-> gpu_ok, images |-> images, allocated |-> allocated, image_cache |-> image_cache, item_graphics_cache |-> item_graphics_cache, canvas_images |-> canvas_images, ids_created |-> ids_created, delete_calls |-> delete_calls, productions |-> productions, windowed_context |-> windowed_context, canvas_size |-> canvas_size, redraw_requested |-> redraw_requested, panic |-> "", full |-> FALSE, ops |-> <<>>]

SetHeap(h) ==
    /\ images' = h.images
    /\ allocated' = h.allocated
    /\ image_cache' = h.image_cache
    /\ item_graphics_cache' = h.item_graphics_cache
    /\ canvas_images' = h.canvas_images
    /\ ids_created' = h.ids_created
    /\ delete_calls' = h.delete_calls
    /\ productions' = h.productions
    /\ windowed_context' = h.windowed_context
    /\ canvas_size' = h.canvas_size
    /\ redraw_requested' = h.redraw_requested
    /\ panic' = h.panic
    /\ canvas_state' = RunCanvas(h.ops, canvas_state)

\* A call made after a panic (or past the model's bounds) does nothing: the
\* handler has already been left.
Stopped(h) == h.panic # "" \/ h.full

Log(h, cmd) == [h EXCEPT !.ops = Append(@, cmd)]

Panic(h, why) == [h EXCEPT !.panic = why]

Ret(h, v) == [h |-> h, ret |-> v]

\* ----------------------------------------------------------------- canvas
\* femtovg::Canvas::create_image / create_image_empty: Ok(id) with a new id,
\* or Err (ret = 0) when the GPU cannot allocate.
CanvasCreateImage(h, size, cmd) ==
    IF ~h.gpu_ok THEN Ret(Log(h, cmd), 0)
    ELSE IF h.ids_created >= MaxIds THEN Ret([h EXCEPT !.full = TRUE], 0)
    ELSE Ret([Log(h, cmd) EXCEPT !.ids_created = @ + 1, !.canvas_images[h.ids_created + 1] = size], h.ids_created + 1)

\* femtovg::Canvas::delete_image
CanvasDeleteImage(h, id) == [Log(h, "delete_image") EXCEPT !.canvas_images[id] = <<>>, !.delete_calls[id] = @ + 1]

\* femtovg::Canvas::image_info: Ok(<<w, h>>), or Err (<<>>) for an unknown id.
CanvasImageInfo(h, id) == IF id \in ImageIds THEN h.canvas_images[id] ELSE <<>>

\* --------------------------------------------------------------- ImageData
\* An allocation: the Rc's strong count, the ImageData in its RefCell (data is
\* the variant), and for the model's bookkeeping the resource it was created
\* from (origin) and the state of its asynchronous fetch (fetch).
NoImageData == [strong |-> 0, data |-> "None", id |-> 0, upload_pending |-> "absent", size |-> <<>>, format |-> "", fetch |-> "none", origin |-> ResourceNone]

\* ImageData::CPUSide { decoded_image }
CPUSide(size, format) == [NoImageData EXCEPT !.data = "CPUSide", !.size = size, !.format = format]

\* ImageData::GPUSide { id, canvas, upload_pending }
GPUSide(id, upload_pending) == [NoImageData EXCEPT !.data = "GPUSide", !.id = id, !.upload_pending = upload_pending]

DropLeaksMutant(h, d) == h

\* impl Drop for ImageData: a GPU-side value deletes its id from the canvas.
DropImageData(h, d) ==
    IF d.data = "GPUSide" THEN CanvasDeleteImage(h, d.id) ELSE h

\* Weak::upgrade succeeds / the allocation still has a strong holder.
Alive(h, i) == i # 0 /\ h.images[i].strong > 0

\* Rc::new(CachedImage(RefCell::new(d))): a new allocation with one holder.
RcNew(h, d) ==
    IF h.allocated >= MaxImages THEN Ret([h EXCEPT !.full = TRUE], 0)
    ELSE Ret([h EXCEPT !.allocated = @ + 1, !.images[h.allocated + 1] = [d EXCEPT !.strong = 1]], h.allocated + 1)

\* Rc::clone
RcClone(h, i) == IF i = 0 THEN h ELSE [h EXCEPT !.images[i].strong = @ + 1]

\* Drop of one Rc<CachedImage>: the last one destroys the CachedImage.
RcDrop(h, i) ==
    IF i = 0 THEN h
    ELSE IF h.images[i].strong = 1 THEN DropImageData([h EXCEPT !.images[i].strong = 0], h.images[i])
    ELSE [h EXCEPT !.images[i].strong = @ - 1]

\* CachedImage::new_on_cpu / new_on_gpu
new_on_cpu(size, format) == CPUSide(size, format)

new_on_gpu(image_id, upload_pending_notifier) == GPUSide(image_id, upload_pending_notifier)

\* femtovg::ImageSource::try_from(&DynamicImage) is Ok for these pixel formats.
DirectlySupported(format) == format \in {"Rgba8", "Rgb8", "Luma8"}

UploadTwiceMutant(h, i) ==
    LET Uploaded(c) ==
            IF c.ret = 0 THEN Ret(IF c.h.full THEN c.h ELSE Panic(c.h, "create_image"), 0)
            ELSE Ret([c.h EXCEPT !.images[i].data = "GPUSide", !.images[i].id = c.ret], c.ret)
    IN  Uploaded(CanvasCreateImage(h, IF h.images[i].data = "CPUSide" THEN h.images[i].size ELSE CanvasImageInfo(h, h.images[i].id), "create_image"))

UploadRevertsMutant(h, i) ==
    LET Uploaded(c) ==
            IF c.ret = 0 THEN Ret(IF c.h.full THEN c.h ELSE Panic(c.h, "create_image"), 0)
            ELSE Ret([c.h EXCEPT !.images[i].data = "GPUSide", !.images[i].id = c.ret], c.ret)
    IN  IF h.images[i].data = "CPUSide" THEN Uploaded(CanvasCreateImage(h, h.images[i].size, "create_image"))
        ELSE Ret([h EXCEPT !.images[i].data = "CPUSide", !.images[i].size = h.canvas_images[h.images[i].id]], h.images[i].id)

\* CachedImage::ensure_uploaded_to_gpu
ensure_uploaded_to_gpu(h, i) ==
    LET img == h.images[i]
        \* c: the result of canvas.create_image(..).unwrap(); the GPU-side value
        \* replaces the CPU-side one, which is dropped.
        Uploaded(c) ==
            IF c.ret = 0 THEN Ret(IF c.h.full THEN c.h ELSE Panic(c.h, "create_image"), 0)
            ELSE Ret(DropImageData([c.h EXCEPT !.images[i] = [GPUSide(c.ret, "absent") EXCEPT !.strong = img.strong, !.fetch = img.fetch, !.origin = img.origin]], img), c.ret)
    IN  IF Stopped(h) THEN Ret(h, 0)
        ELSE IF img.data = "CPUSide"
        THEN Uploaded(CanvasCreateImage(IF DirectlySupported(img.format) THEN h ELSE Log(h, "to_rgba8"), img.size, "create_image"))
        ELSE Ret(h, img.id)

SizePendingZeroMutant(h, i) ==
    LET img == h.images[i]
    IN  IF img.data = "GPUSide"
        THEN IF img.upload_pending = "true" THEN <<0, 0>>
             ELSE IF CanvasImageInfo(h, img.id) = <<>> THEN <<0, 0>> ELSE CanvasImageInfo(h, img.id)
        ELSE img.size

\* CachedImage::size
size(h, i) ==
    LET img == h.images[i]
    IN  IF img.data = "GPUSide"
        THEN IF img.upload_pending = "true" THEN <<1, 1>>
             ELSE IF CanvasImageInfo(h, img.id) = <<>> THEN <<0, 0>> ELSE CanvasImageInfo(h, img.id)
        ELSE img.size

\* CachedImage::notify_loaded (wasm32)
notify_loaded(h, i) ==
    IF h.images[i].data = "GPUSide" /\ h.images[i].upload_pending # "absent"
    THEN [h EXCEPT !.images[i].upload_pending = "false"]
    ELSE h

\* ------------------------------------------------------------ image loading
EndsWith(str, suffix) == Len(str) >= Len(suffix) /\ SubSeq(str, Len(str) - Len(suffix) + 1, Len(str)) = suffix

StartsWith(str, prefix) == Len(str) >= Len(prefix) /\ SubSeq(str, 1, Len(prefix)) = prefix

Count(seq, x) == Cardinality({j \in DOMAIN seq : seq[j] = x})

Decoders == {"svg::load_from_path", "image::open", "svg::load_from_data", "image::load_from_memory"}

\* Buffers the image decode service rejects (decode error).
corrupt_bytes == <<"?", "?">>
Decodable(r) == r.path # corrupt_path /\ r.bytes # corrupt_bytes

\* The pixel format of the DynamicImage the decoder returns.
DecodedFormat(r) == IF r.kind = "AbsoluteFilePath" THEN "Rgba8" ELSE "Bgra8"

DecodeFailureAbsentMutant(h, r, decoder) ==
    IF ~Decodable(r) THEN Ret(Log(h, decoder), 0)
    ELSE RcNew(Log(h, decoder), [new_on_cpu(DecodedSize(r), DecodedFormat(r)) EXCEPT !.origin = r])

\* decoder(...).unwrap() followed by Rc::new(CachedImage::new_on_cpu(..))
decode_on_cpu(h, r, decoder) ==
    IF ~Decodable(r) THEN Ret(Panic(Log(h, decoder), "decode"), 0)
    ELSE RcNew(Log(h, decoder), [new_on_cpu(DecodedSize(r), DecodedFormat(r)) EXCEPT !.origin = r])

\* GLRendererData::load_html_image (wasm32): a 1x1 GPU placeholder with the
\* pending flag set; the onload callback is registered (fetch = "pending").
load_html_image(h, r) ==
    LET Created(c) ==
            IF c.ret = 0 THEN Ret(IF c.h.full THEN c.h ELSE Panic(c.h, "create_image_empty"), 0)
            ELSE RcNew(c.h, [new_on_gpu(c.ret, "true") EXCEPT !.fetch = "pending", !.origin = r])
    IN  Created(CanvasCreateImage(h, <<1, 1>>, "create_image_empty"))

SvgSniffIgnoredMutant(h, r) ==
    IF r.kind = "AbsoluteFilePath"
    THEN IF platform = "native"
         THEN IF feature_svg /\ EndsWith(r.path, <<".", "s", "v", "g">>)
              THEN decode_on_cpu(h, r, "svg::load_from_path")
              ELSE decode_on_cpu(h, r, "image::open")
         ELSE load_html_image(h, r)
    ELSE decode_on_cpu(h, r, "image::load_from_memory")

\* The image_create_fn closures of load_image_resource.
image_create_fn(h, r) ==
    IF r.kind = "AbsoluteFilePath"
    THEN IF platform = "native"
         THEN IF feature_svg /\ EndsWith(r.path, <<".", "s", "v", "g">>)
              THEN decode_on_cpu(h, r, "svg::load_from_path")
              ELSE decode_on_cpu(h, r, "image::open")
         ELSE load_html_image(h, r)
    ELSE IF feature_svg /\ StartsWith(r.bytes, <<"<", "s", "v", "g">>)
         THEN decode_on_cpu(h, r, "svg::load_from_data")
         ELSE decode_on_cpu(h, r, "image::load_from_memory")

LookupPinsMutant(h, cache_key, r) ==
    LET e == h.image_cache[cache_key]
        Insert(n) == IF Stopped(n.h) THEN n ELSE Ret(RcClone([n.h EXCEPT !.image_cache[cache_key] = n.ret], n.ret), n.ret)
    IN  IF e # 0 /\ Alive(h, e) THEN Ret(RcClone(h, e), e)
        ELSE Insert(image_create_fn(h, r))

LookupAlwaysCreatesMutant(h, cache_key, r) ==
    LET Insert(n) == IF Stopped(n.h) THEN n ELSE Ret([n.h EXCEPT !.image_cache[cache_key] = n.ret], n.ret)
    IN  Insert(image_create_fn(h, r))

\* GLRendererData::lookup_image_in_cache_or_create
lookup_image_in_cache_or_create(h, cache_key, r) ==
    LET e == h.image_cache[cache_key]
        \* n: the new image; a Weak to it is stored under the key.
        Insert(n) == IF Stopped(n.h) THEN n ELSE Ret([n.h EXCEPT !.image_cache[cache_key] = n.ret], n.ret)
    IN  IF e # 0
        THEN \* Entry::Occupied
             IF Alive(h, e) THEN Ret(RcClone(h, e), e)
             ELSE Insert(image_create_fn(h, r))
        ELSE \* Entry::Vacant
             Insert(image_create_fn(h, r))

\* The ImageCacheKey load_image_resource builds for a resource.
KeyOf(r) == IF r.kind = "AbsoluteFilePath" THEN ImageCacheKey_Path(r.path) ELSE ImageCacheKey_EmbeddedData(r.addr)

HasKey(r) == r.kind \in {"AbsoluteFilePath", "EmbeddedData"}

EmbeddedKeyedByContentMutant(h, r) ==
    IF Stopped(h) THEN Ret(h, 0)
    ELSE IF r.kind = "None" THEN Ret(h, 0)
    ELSE IF r.kind = "AbsoluteFilePath" THEN lookup_image_in_cache_or_create(h, ImageCacheKey_Path(r.path), r)
    ELSE IF r.kind = "EmbeddedData" THEN lookup_image_in_cache_or_create(h, ImageCacheKey_EmbeddedData(IF r.bytes = png_bytes THEN 1 ELSE r.addr), r)
    ELSE Ret(Panic(h, "not implemented"), 0)

RgbaSilentlyNoneMutant(h, r) ==
    IF Stopped(h) THEN Ret(h, 0)
    ELSE IF r.kind = "None" THEN Ret(h, 0)
    ELSE IF r.kind = "AbsoluteFilePath" THEN lookup_image_in_cache_or_create(h, ImageCacheKey_Path(r.path), r)
    ELSE IF r.kind = "EmbeddedData" THEN lookup_image_in_cache_or_create(h, ImageCacheKey_EmbeddedData(r.addr), r)
    ELSE Ret(h, 0)

\* GLRendererData::load_image_resource: ret is 0 for None, else the
\* allocation of Some(ItemGraphicsCacheEntry::Image(rc)).
load_image_resource(h, r) ==
    IF Stopped(h) THEN Ret(h, 0)
    ELSE IF r.kind = "None" THEN Ret(h, 0)
    ELSE IF r.kind = "AbsoluteFilePath" THEN lookup_image_in_cache_or_create(h, ImageCacheKey_Path(r.path), r)
    ELSE IF r.kind = "EmbeddedData" THEN lookup_image_in_cache_or_create(h, ImageCacheKey_EmbeddedData(r.addr), r)
    ELSE Ret(Panic(h, "not implemented"), 0)

\* ------------------------------------------------------ item graphics cache
\* A slot of the RenderingCache: cache_ok is the dependency tracker's verdict
\* (the stored entry is up to date), entry the stored
\* Option<ItemGraphicsCacheEntry> (0: None).
EmptySlot == [cache_ok |-> FALSE, entry |-> 0]

\* CachedRenderingData::ensure_up_to_date(cache, update_fn).  p is the result
\* of update_fn run on h: it is used (update_fn is run) only when the slot is
\* stale; the new entry displaces the old one, which is dropped.
ensure_up_to_date(h, s, p) ==
    IF Stopped(h) THEN Ret(h, 0)
    ELSE IF h.item_graphics_cache[s].cache_ok
    THEN Ret(RcClone(h, h.item_graphics_cache[s].entry), h.item_graphics_cache[s].entry)
    ELSE IF Stopped(p.h) THEN p
    ELSE Ret(RcClone(RcDrop([p.h EXCEPT !.item_graphics_cache[s] = [cache_ok |-> TRUE, entry |-> p.ret]], p.h.item_graphics_cache[s].entry), p.ret), p.ret)

\* The closure || self.load_image_resource(source_property_getter())
image_producer(h, s, r) ==
    load_image_resource([Log(h, "source_property_getter") EXCEPT !.productions[s] = @ + 1], r)

AlwaysProducesMutant(h, s, r) ==
    LET Store(p) ==
            IF Stopped(p.h) THEN p
            ELSE Ret(RcClone(RcDrop([p.h EXCEPT !.item_graphics_cache[s] = [cache_ok |-> TRUE, entry |-> p.ret]], p.h.item_graphics_cache[s].entry), p.ret), p.ret)
    IN  Store(image_producer(h, s, r))

\* GLRendererData::load_cached_item_image: ret is 0 for None, else the
\* allocation of the returned Rc<CachedImage> (one more strong holder).
load_cached_item_image(h, s, r) ==
    LET \* e: the stored entry, cloned out of the cache; the match moves the Rc
        \* out of the clone.
        Matched(e) == IF Stopped(e.h) \/ e.ret = 0 THEN e ELSE Ret(RcDrop(RcClone(e.h, e.ret), e.ret), e.ret)
    IN  Matched(ensure_up_to_date(h, s, image_producer(h, s, r)))

\* GLRenderer::image_size
ImageSizeUploadsMutant(h, s, r) ==
    LET Uploaded(c, u) == Ret(RcDrop(u.h, c.ret), size(u.h, c.ret))
        Measured(c) ==
            IF Stopped(c.h) THEN Ret(c.h, <<0, 0>>)
            ELSE IF c.ret = 0 THEN Ret(c.h, <<0, 0>>)
            ELSE Uploaded(c, ensure_uploaded_to_gpu(c.h, c.ret))
    IN  Measured(load_cached_item_image(h, s, r))

image_size(h, s, r) ==
    LET Measured(c) ==
            IF Stopped(c.h) THEN Ret(c.h, <<0, 0>>)
            ELSE IF c.ret = 0 THEN Ret(c.h, <<0, 0>>)
            ELSE Ret(RcDrop(c.h, c.ret), size(c.h, c.ret))
    IN  Measured(load_cached_item_image(h, s, r))

\* ------------------------------------------------------------ draw handlers
\* An empty source clip rectangle (Rect::default()): x, y, width, height.
NoClip == <<0, 0, 0, 0>>

\* A draw_image_impl call that returned before it reached the canvas.
NotDrawn(h, i) == [h |-> h, cached_image |-> i, image_id |-> 0, image_size |-> <<0, 0>>, source_size |-> <<0, 0>>, scale |-> <<>>]

\* The quotient a / b of two lengths, b > 0, as <<a, b>>, and f32::max of
\* two quotients.
Quotient(a, b) == <<a, b>>
MaxQuotient(q, r) == IF q[1] * r[2] >= r[1] * q[2] THEN q ELSE r

ContainUsesSmallerMutant(image_fit, target_width, target_height, source_width, source_height) ==
    IF image_fit = "fill" THEN <<Quotient(target_width, source_width), Quotient(target_height, source_height)>>
    ELSE IF MaxQuotient(Quotient(target_width, source_width), Quotient(target_height, source_height)) = Quotient(target_width, source_width)
    THEN <<Quotient(target_height, source_height), Quotient(target_height, source_height)>>
    ELSE <<Quotient(target_width, source_width), Quotient(target_width, source_width)>>

\* The match on image_fit in draw_image_impl: the arguments of canvas.scale.
image_scale(image_fit, target_width, target_height, source_width, source_height) ==
    IF image_fit = "fill" THEN <<Quotient(target_width, source_width), Quotient(target_height, source_height)>>
    ELSE <<MaxQuotient(Quotient(target_width, source_width), Quotient(target_height, source_height)),
           MaxQuotient(Quotient(target_width, source_width), Quotient(target_height, source_height))>>

\* The source size draw_image_impl scales from: the size of the image when
\* the source clip rectangle is empty, else the size of that rectangle.
source_size(source_clip_rect, measured) ==
    IF ~(source_clip_rect[3] > 0 /\ source_clip_rect[4] > 0) THEN measured
    ELSE <<source_clip_rect[3], source_clip_rect[4]>>

\* GLItemRenderer::draw_image_impl.  The result carries the locals
\* cached_image, image_id, image_size and (source_width, source_height), and
\* the arguments of canvas.scale, beside the heap.
draw_image_impl(h, s, r, source_clip_rect, target_width, target_height, image_fit) ==
    LET Scaled(i, u, measured, from) ==
            [h |-> RcDrop(Log(Log(Log(Log(Log(u.h, "save"), "translate"), "scale"), "fill_path"), "restore"), i),
             cached_image |-> i, image_id |-> u.ret, image_size |-> measured, source_size |-> from,
             scale |-> image_scale(image_fit, target_width, target_height, from[1], from[2])]
        Measured(i, u, measured) == Scaled(i, u, measured, source_size(source_clip_rect, measured))
        \* u: the result of cached_image.ensure_uploaded_to_gpu(..) on image i
        Filled(i, u) ==
            IF Stopped(u.h) THEN NotDrawn(u.h, i)
            ELSE Measured(i, u, size(u.h, i))
        \* c: the result of load_cached_item_image(..)
        Loaded(c) ==
            IF Stopped(c.h) \/ c.ret = 0 THEN NotDrawn(c.h, 0)
            ELSE Filled(c.ret, ensure_uploaded_to_gpu(c.h, c.ret))
    IN  IF target_width <= 0 \/ target_height < 0 THEN NotDrawn(h, 0)
        ELSE Loaded(load_cached_item_image(h, s, r))

\* The update closure of draw_cached_pixmap: update_fn hands over the pixels
\* (provides) or not; a failed create_image leaves cached_image None.
pixmap_producer(h, s, provides) ==
    LET Created(c) == IF c.ret = 0 THEN Ret(c.h, 0) ELSE RcNew(c.h, new_on_gpu(c.ret, "absent"))
        Updated(h0) == IF ~provides THEN Ret(h0, 0) ELSE Created(CanvasCreateImage(h0, <<16, 16>>, "create_image"))
    IN  Updated([Log(h, "update_fn") EXCEPT !.productions[s] = @ + 1])

\* GLItemRenderer::draw_cached_pixmap
draw_cached_pixmap(h, s, provides) ==
    LET Filled(i, u) ==
            IF Stopped(u.h) THEN [h |-> u.h, cached_image |-> i, image_id |-> 0]
            ELSE IF CanvasImageInfo(u.h, u.ret) = <<>> THEN [h |-> Panic(u.h, "image_info"), cached_image |-> i, image_id |-> u.ret]
            ELSE [h |-> RcDrop(Log(u.h, "fill_path"), i), cached_image |-> i, image_id |-> u.ret]
        Cached(e) ==
            IF Stopped(e.h) \/ e.ret = 0 THEN [h |-> e.h, cached_image |-> 0, image_id |-> 0]
            ELSE Filled(e.ret, ensure_uploaded_to_gpu(e.h, e.ret))
    IN  Cached(ensure_up_to_date(h, s, pixmap_producer(h, s, provides)))

\* ------------------------------------------------------------------ frames
\* WindowedContextWrapper::make_current / make_not_current
make_current(ctx) == IF ctx = "NotCurrent" THEN "Current" ELSE ctx

MakeNotCurrentKeepsMutant(ctx) == ctx

make_not_current(ctx) == IF ctx = "NotCurrent" THEN ctx ELSE "NotCurrent"

\* WindowedContextWrapper::swap_buffers: presents only when current.
swap_buffers(h) == IF h.windowed_context = "Current" THEN Log(h, "swap_buffers") ELSE h

\* GLRenderer::new_renderer
new_renderer(h, inner_size) ==
    LET Sized(h1) == Log(Log([h1 EXCEPT !.canvas_size = inner_size], "set_size"), "clear_rect")
    IN  Sized(IF platform = "native" THEN [Log(h, "make_current") EXCEPT !.windowed_context = make_current(@)] ELSE h)

RetainMiscountsMutant(h, e) == Alive(h, e) /\ h.images[e].strong + 1 > 2

\* The retain predicate of flush_renderer: the weak entry upgrades and the
\* strong count, which then includes the upgraded Rc, is above 1.
retain_entry(h, e) == Alive(h, e) /\ h.images[e].strong + 1 > 1

ReleaseBeforeSwapMutant(h) ==
    LET Retain(h2) == [Log(h2, "retain") EXCEPT !.image_cache = [k \in ImageCacheKeys |-> IF h2.image_cache[k] # 0 /\ retain_entry(h2, h2.image_cache[k]) THEN h2.image_cache[k] ELSE 0]]
    IN  Retain(IF platform = "native" THEN swap_buffers([Log(Log(h, "flush"), "make_not_current") EXCEPT !.windowed_context = make_not_current(@)]) ELSE Log(h, "flush"))

FlushClearsCacheMutant(h) ==
    LET Retain(h2) == [Log(h2, "retain") EXCEPT !.image_cache = [k \in ImageCacheKeys |-> 0]]
    IN  Retain(IF platform = "native" THEN [Log(swap_buffers(Log(h, "flush")), "make_not_current") EXCEPT !.windowed_context = make_not_current(@)] ELSE Log(h, "flush"))

\* GLRenderer::flush_renderer
flush_renderer(h) ==
    LET \* image_cache.retain(..) on the heap h2 left by the frame's end
        Retain(h2) == [Log(h2, "retain") EXCEPT !.image_cache = [k \in ImageCacheKeys |-> IF h2.image_cache[k] # 0 /\ retain_entry(h2, h2.image_cache[k]) THEN h2.image_cache[k] ELSE 0]]
    IN  Retain(IF platform = "native" THEN [Log(swap_buffers(Log(h, "flush")), "make_not_current") EXCEPT !.windowed_context = make_not_current(@)] ELSE Log(h, "flush"))

OnloadIgnoresDropMutant(h, i, window) ==
    LET id == h.images[i].id
        Loaded(h0) ==
            IF CanvasImageInfo(h0, id) = <<>> THEN Panic(Log(h0, "realloc_image"), "realloc_image")
            ELSE RcDrop([Log(notify_loaded(Log(Log([h0 EXCEPT !.canvas_images[id] = DecodedSize(h.images[i].origin)], "realloc_image"), "update_image"), i), "request_redraw") EXCEPT !.redraw_requested = TRUE], i)
    IN  IF ~Alive(h, i) \/ ~window THEN [Log(h, "request_redraw") EXCEPT !.redraw_requested = TRUE] ELSE Loaded(RcClone(h, i))

\* The onload closure registered by load_html_image (wasm32), run by the
\* browser on the render thread once the image has been fetched.  window:
\* the Weak references to the window and the event loop proxy upgrade.  The
\* Weak to the canvas upgrades whenever the image is alive, because the
\* GPU-side placeholder holds a strong reference to the canvas.
html_image_onload(h, i, window) ==
    LET id == h.images[i].id
        Loaded(h0) ==
            IF CanvasImageInfo(h0, id) = <<>> THEN Panic(Log(h0, "realloc_image"), "realloc_image")
            ELSE RcDrop([Log(notify_loaded(Log(Log([h0 EXCEPT !.canvas_images[id] = DecodedSize(h.images[i].origin)], "realloc_image"), "update_image"), i), "request_redraw") EXCEPT !.redraw_requested = TRUE], i)
    IN  IF ~Alive(h, i) \/ ~window THEN h ELSE Loaded(RcClone(h, i))

\* ------------------------------------------------------------------ fonts
\* Option<i32> / Option<f32> of a FontRequest: None is Unset.
Unset == -1

Families == {"Sans", "Noto"}
Weights == {400, 700}
FontCacheKeys == [family : Families, weight : Weights]

\* The font requests of the items: family, weight and pixel size set or not.
FontRequests == [family : {"Sans"}, weight : {Unset} \cup Weights, pixel_size : {Unset, 10}]
ScaleFactors == {1, 2}

\* The fallback families the platform reports for a request.
FallbackChains == {<<>>, <<"Noto">>, <<"Noto", "Sans">>}

\* No font has been requested yet.
NoFont == [request |-> [family |-> "", weight |-> Unset, pixel_size |-> Unset], scale_factor |-> 0, chain |-> <<>>, font |-> [fonts |-> <<>>, pixel_size |-> 0]]

\* canvas_borrowed: a RefMut of the canvas's RefCell is alive in the caller.
FontHeap == [loaded_fonts |-> loaded_fonts, fonts_created |-> fonts_created, loader_runs |-> loader_runs, panic |-> "", ops |-> <<>>, canvas_borrowed |-> FALSE]

\* fonts::try_load_app_font, else fonts::load_system_font: the application
\* registered fonts are asked first, the system only when they have none.
\* The font is added to the canvas through canvas.borrow_mut(), which
\* panics when the canvas is already borrowed.
load_font(h, request) ==
    LET key == [family |-> request.family, weight |-> request.weight]
        Added(h1) == Ret([h1 EXCEPT !.fonts_created = @ + 1, !.loader_runs[key] = @ + 1], h.fonts_created + 1)
    IN  IF h.canvas_borrowed THEN Ret(Panic(Log(h, "try_load_app_font"), "already borrowed"), 0)
        ELSE Added(IF request.family \in app_fonts THEN Log(h, "try_load_app_font") ELSE Log(Log(h, "try_load_app_font"), "load_system_font"))

LoadAlwaysReloadsMutant(h, request) ==
    LET key == [family |-> request.family, weight |-> request.weight]
        Inserted(l) == Ret([l.h EXCEPT !.loaded_fonts[key] = l.ret], l.ret)
    IN  IF h.panic # "" THEN Ret(h, 0)
        ELSE IF request.weight = Unset THEN Ret(Panic(h, "unwrap"), 0)
        ELSE Inserted(load_font(h, request))

\* FontCache::load_single_font: entry(key).or_insert_with(loader).clone()
load_single_font(h, request) ==
    LET key == [family |-> request.family, weight |-> request.weight]
        Inserted(l) == Ret([l.h EXCEPT !.loaded_fonts[key] = l.ret], l.ret)
    IN  IF h.panic # "" THEN Ret(h, 0)
        ELSE IF request.weight = Unset THEN Ret(Panic(h, "unwrap"), 0)
        ELSE IF h.loaded_fonts[key] # 0 THEN Ret(h, h.loaded_fonts[key])
        ELSE Inserted(load_font(h, request))

\* fonts::font_fallbacks_for_request: one request per fallback family, with
\* the weight and pixel size of the (resolved) request.
font_fallbacks_for_request(request, chain) == [n \in DOMAIN chain |-> [request EXCEPT !.family = chain[n]]]

RECURSIVE FallbacksFirstMutant(_, _, _)
FallbacksFirstMutant(h, fallbacks, fonts) ==
    LET Collected(l) == FallbacksFirstMutant(l.h, Tail(fallbacks), <<l.ret>> \o fonts)
    IN  IF fallbacks = <<>> THEN Ret(h, fonts)
        ELSE Collected(load_single_font(h, Head(fallbacks)))

RECURSIVE load_fallbacks(_, _, _)
\* The map over the fallbacks in FontCache::font, in chain order.
load_fallbacks(h, fallbacks, fonts) ==
    LET Collected(l) == load_fallbacks(l.h, Tail(fallbacks), Append(fonts, l.ret))
    IN  IF fallbacks = <<>> THEN Ret(h, fonts)
        ELSE Collected(load_single_font(h, Head(fallbacks)))

DefaultSizeUnscaledMutant(request, scale_factor) ==
    [request EXCEPT !.pixel_size = IF @ = Unset THEN DEFAULT_FONT_SIZE ELSE @, !.weight = IF @ = Unset THEN DEFAULT_FONT_WEIGHT ELSE @]

\* The first two statements of FontCache::font: the defaults of an unset
\* pixel size and an unset weight.
resolve_request(request, scale_factor) ==
    [request EXCEPT !.pixel_size = IF @ = Unset THEN DEFAULT_FONT_SIZE * scale_factor ELSE @, !.weight = IF @ = Unset THEN DEFAULT_FONT_WEIGHT ELSE @]

\* FontCache::font: ret is the GLFont (its font ids and its pixel size).
font(h, request, scale_factor, chain) ==
    LET Collected(resolved, rest) == Ret(rest.h, [fonts |-> rest.ret, pixel_size |-> resolved.pixel_size])
        Primary(resolved, primary) == Collected(resolved, load_fallbacks(primary.h, font_fallbacks_for_request(resolved, chain), <<primary.ret>>))
        Resolved(resolved) == Primary(resolved, load_single_font(h, resolved))
    IN  Resolved(resolve_request(request, scale_factor))

\* ------------------------------------------------------------------- text
\* Longest text of a text item.
MaxTextLen == 3

\* A string is a sequence of characters; Ellipsis is the character U+2026.
Ellipsis == "ellipsis"
Chars == {"a", " ", "\n"}
Texts == UNION {[1..n -> Chars] : n \in 0..MaxTextLen}

\* A character whose UTF-8 encoding is two bytes long.
WideChar == "wide"

\* The texts of text inputs: one-byte and two-byte characters.
InputChars == {"a", WideChar}
InputTexts == UNION {[1..n -> InputChars] : n \in 0..(MaxTextLen - 1)}

\* The length of a character and of a text in bytes.
ByteLen(c) == IF c = WideChar THEN 2 ELSE 1

RECURSIVE Bytes(_)
Bytes(text) == IF text = <<>> THEN 0 ELSE ByteLen(Head(text)) + Bytes(Tail(text))

\* The byte offsets at which a character of the text starts or the text ends.
Boundaries(text) == {Bytes(SubSeq(text, 1, n)) : n \in 0..Len(text)}

\* Widths and heights of the text items.  Lengths are counted in eighths of a
\* pixel, so that the halves the code takes (x / 2.) are exact, as they are
\* in f32.
TextWidths == {0, 2, 8, 20, 80}
TextHeights == {0, 40}
Half(x) == x \div 2

\* glyph.advance_x of a character at the paint's font, and
\* measure_font(paint).height().
Advance(c) == CASE c = "a" -> 8 [] c = " " -> 4 [] c = "\n" -> 0 [] c = Ellipsis -> 4 [] c = WideChar -> 8
FontMetrics == [height |-> 16]

\* GLFontMetrics::height: the receiver canvas.borrow_mut() is evaluated
\* first, then the argument self.font().paint(), then measure_font.
GLFontMetrics_height(h, request, scale_factor, chain) ==
    LET Measured(f) ==
            IF f.h.panic # "" THEN Ret(f.h, 0)
            ELSE Ret([Log(f.h, "measure_font") EXCEPT !.canvas_borrowed = FALSE], FontMetrics.height)
    IN  Measured(font([h EXCEPT !.canvas_borrowed = TRUE], request, scale_factor, chain))

is_whitespace(c) == c \in {" ", "\n"}

RECURSIVE MeasureWidth(_)
\* canvas.measure_text(0., 0., text, paint).width(): the glyph advances added up.
MeasureWidth(text) == IF text = <<>> THEN 0 ELSE Advance(Head(text)) + MeasureWidth(Tail(text))

\* canvas.measure_text(..).height()
MeasureHeight(text) == IF text = <<>> THEN 0 ELSE FontMetrics.height

RECURSIVE trim_start(_)
trim_start(text) == IF text # <<>> /\ is_whitespace(Head(text)) THEN trim_start(Tail(text)) ELSE text

RECURSIVE trim_end(_)
trim_end(text) == IF text # <<>> /\ is_whitespace(text[Len(text)]) THEN trim_end(SubSeq(text, 1, Len(text) - 1)) ELSE text

\* str::trim
trim(text) == trim_end(trim_start(text))

\* Position of the first newline of a text, 0 when it has none.
FirstNewline(text) == IF \E k \in DOMAIN text : text[k] = "\n" THEN CHOOSE k \in DOMAIN text : text[k] = "\n" /\ \A j \in 1..(k - 1) : text[j] # "\n" ELSE 0

RECURSIVE lines(_)
\* str::lines: the lines between newlines; a final newline ends the last line.
lines(text) ==
    IF text = <<>> THEN <<>>
    ELSE IF FirstNewline(text) = 0 THEN <<text>>
    ELSE <<SubSeq(text, 1, FirstNewline(text) - 1)>> \o lines(SubSeq(text, FirstNewline(text) + 1, Len(text)))

\* The places a line may be broken after: a word boundary (before or after
\* white space) or the end of the text, no further than the first newline.
BreakOpportunities(text) ==
    {k \in DOMAIN text :
        /\ FirstNewline(text) # 0 => k <= FirstNewline(text)
        /\ k = Len(text) \/ text[k] = "\n" \/ is_whitespace(text[k]) \/ is_whitespace(text[k + 1])}

\* canvas.break_text(max_width, text, paint): the length of the largest
\* prefix of the text, ending where a line may be broken, that fits
\* max_width; 0 when none fits.
break_text(max_width, text) ==
    LET fits == {k \in BreakOpportunities(text) : MeasureWidth(SubSeq(text, 1, k)) <= max_width}
    IN  IF fits = {} THEN 0 ELSE CHOOSE k \in fits : \A j \in fits : j <= k

\* The match on horizontal_alignment in draw_line and draw_text_impl.
translate_x(horizontal_alignment, max_width, text_width) ==
    CASE horizontal_alignment = "left" -> 0
      [] horizontal_alignment = "center" -> Half(max_width) - Half(text_width)
      [] horizontal_alignment = "right" -> max_width - text_width

\* The match on vertical_alignment in draw_text and draw_text_impl.
translate_y(vertical_alignment, max_height, text_height) ==
    CASE vertical_alignment = "top" -> 0
      [] vertical_alignment = "center" -> Half(max_height) - Half(text_height)
      [] vertical_alignment = "bottom" -> max_height - text_height

\* The loop of a layout that has not begun: no iteration made, y at y0.
LayoutAt(y0) == [start |-> 0, y |-> y0, width |-> 0, height |-> 0, fills |-> <<>>, iterations |-> <<>>, diverged |-> FALSE]

RECURSIVE MeasureBreaksTrimmedMutant(_, _, _, _)
MeasureBreaksTrimmedMutant(text, max_width, d, fuel) ==
    LET Broken(index) ==
            IF index = 0 THEN [d EXCEPT !.iterations = Append(@, [start |-> d.start, index |-> 0])]
            ELSE MeasureBreaksTrimmedMutant(text, max_width,
                     [d EXCEPT !.start = d.start + index,
                               !.height = d.y + MeasureHeight(SubSeq(text, d.start + 1, d.start + index)),
                               !.y = d.y + FontMetrics.height,
                               !.width = IF MeasureWidth(SubSeq(text, d.start + 1, d.start + index)) > d.width THEN MeasureWidth(SubSeq(text, d.start + 1, d.start + index)) ELSE d.width,
                               !.iterations = Append(@, [start |-> d.start, index |-> index])],
                     fuel - 1)
    IN  IF ~(d.start < Len(text)) THEN d
        ELSE IF fuel = 0 THEN [d EXCEPT !.diverged = TRUE]
        ELSE Broken(break_text(max_width, trim_start(SubSeq(text, d.start + 1, Len(text)))))

RECURSIVE text_size_wrap(_, _, _, _)
\* The while loop of GLFont::text_size, d its variables; an iteration is
\* recorded with its start offset and the index break_text returned.  The
\* loop is run for at most fuel iterations: diverged tells it had not ended.
text_size_wrap(text, max_width, d, fuel) ==
    LET Broken(index) ==
            IF index = 0 THEN [d EXCEPT !.iterations = Append(@, [start |-> d.start, index |-> 0])]
            ELSE text_size_wrap(text, max_width,
                     [d EXCEPT !.start = d.start + index,
                               !.height = d.y + MeasureHeight(SubSeq(text, d.start + 1, d.start + index)),
                               !.y = d.y + FontMetrics.height,
                               !.width = IF MeasureWidth(SubSeq(text, d.start + 1, d.start + index)) > d.width THEN MeasureWidth(SubSeq(text, d.start + 1, d.start + index)) ELSE d.width,
                               !.iterations = Append(@, [start |-> d.start, index |-> index])],
                     fuel - 1)
    IN  IF ~(d.start < Len(text)) THEN d
        ELSE IF fuel = 0 THEN [d EXCEPT !.diverged = TRUE]
        ELSE Broken(break_text(max_width, SubSeq(text, d.start + 1, Len(text))))

RECURSIVE text_size_lines(_, _)
\* The for loop of GLFont::text_size over the lines of the text.
text_size_lines(rest, d) ==
    IF rest = <<>> THEN d
    ELSE text_size_lines(Tail(rest),
             [d EXCEPT !.height = d.y + MeasureHeight(Head(rest)),
                       !.y = d.y + FontMetrics.height,
                       !.width = IF MeasureWidth(Head(rest)) > d.width THEN MeasureWidth(Head(rest)) ELSE d.width])

\* GLFont::text_size; max_width is Unset for None.
text_size(text, max_width) ==
    IF max_width # Unset THEN text_size_wrap(text, max_width, LayoutAt(0), Len(text) + 1)
    ELSE text_size_lines(lines(text), LayoutAt(0))

CenterAsRightMutant(pos_x, y, horizontal_alignment, max_width, to_draw) ==
    [x |-> pos_x + (IF horizontal_alignment = "left" THEN 0 ELSE max_width - MeasureWidth(to_draw)), y |-> y, text |-> to_draw]

\* The closure draw_line of draw_text: the fill_text call it makes.
draw_line(pos_x, y, horizontal_alignment, max_width, to_draw) ==
    [x |-> pos_x + translate_x(horizontal_alignment, max_width, MeasureWidth(to_draw)), y |-> y, text |-> to_draw]

RECURSIVE WrapWithoutStopMutant(_, _, _, _)
WrapWithoutStopMutant(item, pos_x, d, fuel) ==
    LET Broken(index) ==
            WrapWithoutStopMutant(item, pos_x,
                [d EXCEPT !.start = d.start + index,
                          !.fills = Append(@, draw_line(pos_x, d.y, item.horizontal_alignment, item.width, trim(SubSeq(item.text, d.start + 1, d.start + index)))),
                          !.y = d.y + FontMetrics.height,
                          !.iterations = Append(@, [start |-> d.start, index |-> index])],
                fuel - 1)
    IN  IF ~(d.start < Len(item.text)) THEN d
        ELSE IF fuel = 0 THEN [d EXCEPT !.diverged = TRUE]
        ELSE Broken(break_text(item.width, SubSeq(item.text, d.start + 1, Len(item.text))))

RECURSIVE WrapFromTextStartMutant(_, _, _, _)
WrapFromTextStartMutant(item, pos_x, d, fuel) ==
    LET Broken(index) ==
            IF index = 0 THEN [d EXCEPT !.iterations = Append(@, [start |-> d.start, index |-> 0])]
            ELSE WrapFromTextStartMutant(item, pos_x,
                     [d EXCEPT !.start = d.start + index,
                               !.fills = Append(@, draw_line(pos_x, d.y, item.horizontal_alignment, item.width, trim(SubSeq(item.text, 1, d.start + index)))),
                               !.y = d.y + FontMetrics.height,
                               !.iterations = Append(@, [start |-> d.start, index |-> index])],
                     fuel - 1)
    IN  IF ~(d.start < Len(item.text)) THEN d
        ELSE IF fuel = 0 THEN [d EXCEPT !.diverged = TRUE]
        ELSE Broken(break_text(item.width, SubSeq(item.text, d.start + 1, Len(item.text))))

RECURSIVE draw_text_wrap(_, _, _, _)
\* The while loop of draw_text (wrap), d its variables, run for at most fuel
\* iterations.
draw_text_wrap(item, pos_x, d, fuel) ==
    LET Broken(index) ==
            IF index = 0 THEN [d EXCEPT !.iterations = Append(@, [start |-> d.start, index |-> 0])]
            ELSE draw_text_wrap(item, pos_x,
                     [d EXCEPT !.start = d.start + index,
                               !.fills = Append(@, draw_line(pos_x, d.y, item.horizontal_alignment, item.width, trim(SubSeq(item.text, d.start + 1, d.start + index)))),
                               !.y = d.y + FontMetrics.height,
                               !.iterations = Append(@, [start |-> d.start, index |-> index])],
                     fuel - 1)
    IN  IF ~(d.start < Len(item.text)) THEN d
        ELSE IF fuel = 0 THEN [d EXCEPT !.diverged = TRUE]
        ELSE Broken(break_text(item.width, SubSeq(item.text, d.start + 1, Len(item.text))))

RECURSIVE first_glyph_reaching(_, _, _, _)
\* The loop over the glyphs of a line that is too wide: the number of the
\* first glyph at which current_x >= w, 0 when no glyph gets there.
first_glyph_reaching(line, w, n, current_x) ==
    IF n > Len(line) THEN 0
    ELSE IF current_x + Advance(line[n]) >= w THEN n
    ELSE first_glyph_reaching(line, w, n + 1, current_x + Advance(line[n]))

ElideKeepsGlyphMutant(line, max_width, elide) ==
    LET Cut(n) ==
            IF n = 0 THEN line
            ELSE IF elide THEN Append(SubSeq(line, 1, n), Ellipsis)
            ELSE SubSeq(line, 1, n)
    IN  IF MeasureWidth(line) > max_width THEN Cut(first_glyph_reaching(line, max_width - (IF elide THEN MeasureWidth(<<Ellipsis>>) ELSE 0), 1, 0))
        ELSE line

\* The body of the loop over the lines in draw_text (no wrap): the text
\* handed to draw_line for a line.  glyph.byte_index of glyph n is n - 1.
line_to_draw(line, max_width, elide) ==
    LET Cut(n) ==
            IF n = 0 THEN line
            ELSE IF elide THEN Append(SubSeq(line, 1, n - 1), Ellipsis)
            ELSE SubSeq(line, 1, n - 1)
    IN  IF MeasureWidth(line) > max_width THEN Cut(first_glyph_reaching(line, max_width - (IF elide THEN MeasureWidth(<<Ellipsis>>) ELSE 0), 1, 0))
        ELSE line

RECURSIVE draw_text_lines(_, _, _, _)
\* The for loop of draw_text over the lines of the text (no wrap).
draw_text_lines(item, pos_x, rest, d) ==
    IF rest = <<>> THEN d
    ELSE draw_text_lines(item, pos_x, Tail(rest),
             [d EXCEPT !.fills = Append(@, draw_line(pos_x, d.y, item.horizontal_alignment, item.width, line_to_draw(Head(rest), item.width, item.overflow = "elide"))),
                       !.y = d.y + FontMetrics.height])

\* The font request and the fallbacks of the text items, and the scale
\* factor of their window.
ItemFontRequest == [family |-> "Sans", weight |-> Unset, pixel_size |-> Unset]

\* GLItemRenderer::draw_text: h is the font cache; the result holds the font
\* cache, the text size measured and the fill_text calls made.
draw_text(h, pos, item) ==
    LET Laid(f, measured, d) == [h |-> f.h, font |-> f.ret, text_size |-> measured, fills |-> d.fills, iterations |-> d.iterations, diverged |-> d.diverged]
        Measured(f, measured) ==
            Laid(f, measured,
                 IF item.wrap = "word_wrap"
                 THEN draw_text_wrap(item, pos[1] + item.x, LayoutAt(pos[2] + item.y + translate_y(item.vertical_alignment, item.height, measured.height)), Len(item.text) + 1)
                 ELSE draw_text_lines(item, pos[1] + item.x, lines(item.text), LayoutAt(pos[2] + item.y + translate_y(item.vertical_alignment, item.height, measured.height))))
        Loaded(f) == Measured(f, text_size(item.text, IF item.wrap = "word_wrap" THEN item.width ELSE Unset))
    IN  IF item.width <= 0 \/ item.height <= 0 THEN [h |-> h, font |-> NoFont.font, text_size |-> LayoutAt(0), fills |-> <<>>, iterations |-> <<>>, diverged |-> FALSE]
        ELSE Loaded(font(h, ItemFontRequest, 1, <<>>))

\* GLItemRenderer::draw_text_impl: the font cache after it and the
\* fill_text call it makes.
draw_text_impl(h, pos, max_width, max_height, text, horizontal_alignment, vertical_alignment) ==
    LET Loaded(f) == [h |-> f.h,
                      fill |-> [x |-> pos[1] + translate_x(horizontal_alignment, max_width, MeasureWidth(text)),
                                y |-> pos[2] + translate_y(vertical_alignment, max_height, FontMetrics.height),
                                text |-> text]]
    IN  Loaded(font(h, ItemFontRequest, 1, <<>>))

\* The TextMetrics canvas.fill_text returns for a fill: one glyph per
\* character with its byte index, its x and its advance.
TextMetrics(fill) ==
    [width |-> MeasureWidth(fill.text),
     glyphs |-> [n \in 1..Len(fill.text) |->
                    [byte_index |-> Bytes(SubSeq(fill.text, 1, n - 1)),
                     x |-> fill.x + MeasureWidth(SubSeq(fill.text, 1, n - 1)),
                     advance_x |-> Advance(fill.text[n])]]]

Max(a, b) == IF a >= b THEN a ELSE b

\* TextInput::selection_anchor_and_cursor and TextInput::has_selection: the
\* anchor and the cursor position, clamped at 0, the smaller one first.
selection_anchor_and_cursor(item) ==
    LET cursor_pos == Max(item.cursor_position, 0)
        anchor_pos == Max(item.anchor_position, 0)
    IN  IF anchor_pos > cursor_pos THEN <<cursor_pos, anchor_pos>> ELSE <<anchor_pos, cursor_pos>>

has_selection(item) == selection_anchor_and_cursor(item)[1] # selection_anchor_and_cursor(item)[2]

\* No rectangle was filled.
NoRect == [drawn |-> FALSE, x |-> 0, y |-> 0, width |-> 0, height |-> 0]

\* The x of the last glyph at byte index b (0 when no glyph is there), and
\* the end x of the last glyph at byte index b (0 when no glyph is there).
GlyphXAt(metrics, b) ==
    LET hits == {n \in DOMAIN metrics.glyphs : metrics.glyphs[n].byte_index = b}
    IN  IF hits = {} THEN 0 ELSE metrics.glyphs[CHOOSE n \in hits : \A m \in hits : m <= n].x

GlyphEndXAt(metrics, b) ==
    LET hits == {n \in DOMAIN metrics.glyphs : metrics.glyphs[n].byte_index = b}
    IN  IF hits = {} THEN 0 ELSE metrics.glyphs[CHOOSE n \in hits : \A m \in hits : m <= n].x + metrics.glyphs[CHOOSE n \in hits : \A m \in hits : m <= n].advance_x

\* The selection rectangle of draw_text_input.
selection_rect(pos, item, metrics) ==
    LET anchor_pos == selection_anchor_and_cursor(item)[1]
        cursor_pos == selection_anchor_and_cursor(item)[2]
        selection_start_x == GlyphXAt(metrics, anchor_pos)
        selection_end_x == GlyphEndXAt(metrics, Max(cursor_pos - 1, 0))
    IN  [drawn |-> TRUE, x |-> selection_start_x, y |-> pos[2], width |-> selection_end_x - selection_start_x, height |-> FontMetrics.height]

\* The cursor rectangle of draw_text_input.
cursor_rect(pos, item, metrics) ==
    LET cursor_index == item.cursor_position
        hits == {n \in DOMAIN metrics.glyphs : metrics.glyphs[n].byte_index = cursor_index}
        cursor_x == IF hits # {} THEN metrics.glyphs[CHOOSE n \in hits : \A m \in hits : n <= m].x
                    ELSE pos[1] + metrics.width
    IN  [drawn |-> TRUE, x |-> cursor_x, y |-> pos[2], width |-> item.text_cursor_width, height |-> FontMetrics.height]

\* GLItemRenderer::draw_text_input: the font cache after it, the fill_text
\* calls, the canvas commands and the selection and cursor rectangles.
draw_text_input(h, pos, item) ==
    LET at == <<pos[1] + item.x, pos[2] + item.y>>
        Cursor == IF item.cursor_position >= 0 /\ item.cursor_visible THEN <<"fill_path">> ELSE <<>>
        CursorRect(m) == IF item.cursor_position >= 0 /\ item.cursor_visible THEN cursor_rect(at, item, TextMetrics(m.fill)) ELSE NoRect
        Selected(m, again) == [h |-> again.h, fills |-> <<m.fill, again.fill>>, ops |-> <<"fill_text", "fill_path", "save", "intersect_scissor", "fill_text", "restore">> \o Cursor,
                               selection_rect |-> selection_rect(at, item, TextMetrics(m.fill)), cursor_rect |-> CursorRect(m)]
        Drawn(m) ==
            IF has_selection(item)
            THEN Selected(m, draw_text_impl(m.h, at, item.width, item.height, item.text, item.horizontal_alignment, item.vertical_alignment))
            ELSE [h |-> m.h, fills |-> <<m.fill>>, ops |-> <<"fill_text">> \o Cursor, selection_rect |-> NoRect, cursor_rect |-> CursorRect(m)]
        Loaded(f) == Drawn(draw_text_impl(f.h, at, item.width, item.height, item.text, item.horizontal_alignment, item.vertical_alignment))
    IN  IF item.width <= 0 \/ item.height <= 0 THEN [h |-> h, fills |-> <<>>, ops |-> <<>>, selection_rect |-> NoRect, cursor_rect |-> NoRect]
        ELSE Loaded(font(h, ItemFontRequest, 1, <<>>))

\* ----------------------------------------------------------------- shapes
\* Widths, heights and border widths of the shape items, in the units of
\* the text lengths.
ShapeLengths == {-8, 0, 8, 40}
BorderWidths == {0, 4, 8, 40}

\* euclid Rect::is_empty of the geometry of an item.
is_empty(width, height) == ~(width > 0 /\ height > 0)

\* f32::min
Min(a, b) == IF a <= b THEN a ELSE b

\* canvas.save_with(|canvas| ..): save, the commands of the closure, restore.
SaveWithoutRestoreMutant(commands) == <<"save">> \o commands

save_with(commands) == <<"save">> \o commands \o <<"restore">>

\* A draw call that returned before it reached the canvas.
NoDraw == [ops |-> <<>>]

\* GLItemRenderer::draw_rectangle: the canvas commands issued and the path
\* filled.
draw_rectangle(pos, item) ==
    IF is_empty(item.width, item.height) THEN NoDraw
    ELSE [ops |-> save_with(<<"translate", "fill_path">>),
          translate |-> pos,
          path |-> [x |-> item.x, y |-> item.y, width |-> item.width, height |-> item.height]]

BorderUnclampedMutant(pos, item) ==
    IF is_empty(item.width, item.height) THEN NoDraw
    ELSE [ops |-> save_with(<<"translate", "fill_path", "stroke_path">>),
          translate |-> pos,
          path |-> [x |-> item.x + Half(item.border_width), y |-> item.y + Half(item.border_width), width |-> item.width - item.border_width, height |-> item.height - item.border_width, radius |-> item.border_radius],
          line_width |-> item.border_width]

\* GLItemRenderer::draw_border_rectangle: the canvas commands issued, the
\* rounded rectangle filled and stroked, and the line width of the stroke.
draw_border_rectangle(pos, item) ==
    LET Clamped(border_width) ==
            [ops |-> save_with(<<"translate", "fill_path", "stroke_path">>),
             translate |-> pos,
             path |-> [x |-> item.x + Half(border_width), y |-> item.y + Half(border_width), width |-> item.width - border_width, height |-> item.height - border_width, radius |-> item.border_radius],
             line_width |-> border_width]
    IN  IF is_empty(item.width, item.height) THEN NoDraw
        ELSE Clamped(Min(item.border_width, Half(item.width)))

\* GLItemRenderer::draw_path: the canvas commands issued.
draw_path(pos, item) ==
    IF item.elements = "None" THEN NoDraw
    ELSE [ops |-> save_with(<<"translate", "fill_path", "stroke_path">>),
          translate |-> <<pos[1] + item.x, pos[2] + item.y>>,
          fitted |-> <<item.width, item.height>>,
          line_width |-> item.stroke_width]

\* GLItemRenderer::draw_box_shadow: the canvas commands issued and the
\* outer and inner rectangles of the shadow.
draw_box_shadow(pos, item) ==
    [ops |-> save_with(<<"translate", "fill_path", "fill_path">>),
     translate |-> pos,
     shadow_outer_rect |-> [x |-> item.x + item.offset_x - Half(item.blur), y |-> item.y + item.offset_y - Half(item.blur), width |-> item.width + item.blur, height |-> item.height + item.blur],
     shadow_inner_rect |-> [x |-> item.x + item.offset_x + Half(item.blur), y |-> item.y + item.offset_y + Half(item.blur), width |-> item.width - item.blur, height |-> item.height - item.blur]]

\* ---------------------------------------------------------------- actions
Running == panic = ""

\* The state GLRenderer::new leaves on platform p: the context released, the
\* caches empty.
InitRenderer(p) ==
    /\ platform = p
    /\ windowed_context = IF p = "native" THEN "NotCurrent" ELSE "None"
    /\ frame_open = FALSE
    /\ window_size = <<640, 480>>
    /\ canvas_size = <<0, 0>>
    /\ images = [i \in ImageIndex |-> NoImageData]
    /\ allocated = 0
    /\ image_cache = [k \in ImageCacheKeys |-> 0]
    /\ item_graphics_cache = [s \in Slots |-> EmptySlot]
    /\ source = [s \in ImageSlots |-> ResourceNone]
    /\ canvas_images = [id \in ImageIds |-> <<>>]
    /\ ids_created = 0
    /\ delete_calls = [id \in ImageIds |-> 0]
    /\ first_id = [i \in ImageIndex |-> 0]
    /\ productions = [s \in Slots |-> 0]
    /\ redraw_requested = FALSE
    /\ panic = ""
    /\ loaded_fonts = [key \in FontCacheKeys |-> 0]
    /\ fonts_created = 0
    /\ app_fonts = {}
    /\ loader_runs = [key \in FontCacheKeys |-> 0]
    /\ last_font = NoFont
    /\ canvas_state = <<DefaultCanvasState>>

\* No item has been drawn yet.
InitOn(p) ==
    /\ InitRenderer(p)
    /\ last_draw = [call |-> "none"]

Init == InitOn("native")

\* The renderer of a window with one of the items, which is drawn next.
InitItem(items) ==
    /\ InitRenderer("native")
    /\ \E item \in items : last_draw = [call |-> "none", item |-> item]

InitWasm == InitOn("wasm32")

\* The host begins a frame.
NewRenderer ==
    /\ Running /\ ~frame_open
    /\ SetHeap(new_renderer(HeapIn(TRUE), window_size))
    /\ frame_open' = TRUE
    /\ UNCHANGED <<platform, window_size, source, first_id>>

\* The host ends the frame.
FlushRenderer ==
    /\ Running /\ frame_open
    /\ SetHeap(flush_renderer(HeapIn(TRUE)))
    /\ frame_open' = FALSE
    /\ UNCHANGED <<platform, window_size, source, first_id>>

\* The first id ensure_uploaded_to_gpu returned for an image is remembered.
NoteFirstId(d) ==
    first_id' = IF d.cached_image # 0 /\ d.image_id # 0 /\ first_id[d.cached_image] = 0 THEN [first_id EXCEPT ![d.cached_image] = d.image_id] ELSE first_id

\* draw_image / draw_clipped_image of an image item during a frame.
DrawImage(s, target_width, target_height, gpu_ok) ==
    /\ Running /\ frame_open
    /\ \E d \in {draw_image_impl(HeapIn(gpu_ok), s, source[s], NoClip, target_width, target_height, "fill")} :
           /\ ~d.h.full
           /\ SetHeap(d.h)
           /\ NoteFirstId(d)
    /\ UNCHANGED <<platform, frame_open, window_size, source>>

\* image_size of an image item, at any time (layout).
ImageSize(s) ==
    /\ Running
    /\ \E d \in {image_size(HeapIn(TRUE), s, source[s])} :
           /\ ~d.h.full
           /\ SetHeap(d.h)
    /\ UNCHANGED <<platform, frame_open, window_size, source, first_id>>

\* image_size of an image item, and the size it returned.
ImageSizeOf(s) ==
    /\ ImageSize(s)
    /\ last_draw' = [call |-> "image_size", slot |-> s, source |-> source[s], size |-> image_size(HeapIn(TRUE), s, source[s]).ret, ops |-> image_size(HeapIn(TRUE), s, source[s]).h.ops]

\* draw_cached_pixmap of a pixmap item during a frame.
DrawCachedPixmap(s, provides, gpu_ok) ==
    /\ Running /\ frame_open
    /\ \E d \in {draw_cached_pixmap(HeapIn(gpu_ok), s, provides)} :
           /\ ~d.h.full
           /\ SetHeap(d.h)
           /\ NoteFirstId(d)
    /\ UNCHANGED <<platform, frame_open, window_size, source>>

\* The source property of an image item is set (or its binding becomes dirty):
\* the dependency tracker marks the item's slot stale.
SetSource(s, r) ==
    /\ Running
    /\ source' = [source EXCEPT ![s] = r]
    /\ item_graphics_cache' = [item_graphics_cache EXCEPT ![s].cache_ok = FALSE]
    /\ productions' = [productions EXCEPT ![s] = 0]
    /\ UNCHANGED <<platform, windowed_context, frame_open, window_size, canvas_size, images, allocated, image_cache, canvas_images, ids_created, delete_calls, first_id, redraw_requested, panic, canvas_state>>

\* The content of a pixmap item changes: its slot is marked stale.
MarkDirty(s) ==
    /\ Running
    /\ item_graphics_cache[s].cache_ok
    /\ item_graphics_cache' = [item_graphics_cache EXCEPT ![s].cache_ok = FALSE]
    /\ productions' = [productions EXCEPT ![s] = 0]
    /\ UNCHANGED <<platform, windowed_context, frame_open, window_size, canvas_size, images, allocated, image_cache, source, canvas_images, ids_created, delete_calls, first_id, redraw_requested, panic, canvas_state>>

\* An item is destroyed: its slot is released and the stored entry dropped.
ReleaseItem(s) ==
    /\ Running
    /\ item_graphics_cache[s] # EmptySlot
    /\ SetHeap(RcDrop([HeapIn(TRUE) EXCEPT !.item_graphics_cache[s] = EmptySlot, !.productions[s] = 0], item_graphics_cache[s].entry))
    /\ UNCHANGED <<platform, frame_open, window_size, source, first_id>>

\* The browser finishes fetching the image of allocation i (wasm32).
HtmlImageOnload(i, window) ==
    /\ Running
    /\ platform = "wasm32"
    /\ images[i].fetch = "pending"
    /\ SetHeap(html_image_onload([HeapIn(TRUE) EXCEPT !.images[i].fetch = "done"], i, window))
    /\ UNCHANGED <<platform, frame_open, window_size, source, first_id>>

\* The windowing system resizes the window.
ResizeWindow(sz) ==
    /\ Running
    /\ sz # window_size
    /\ window_size' = sz
    /\ UNCHANGED <<platform, windowed_context, frame_open, canvas_size, images, allocated, image_cache, item_graphics_cache, source, canvas_images, ids_created, delete_calls, first_id, productions, redraw_requested, panic, canvas_state>>

\* An item asks for a font (draw_text, draw_text_input, a font metrics query).
FontRequested(request, scale_factor, chain) ==
    /\ Running
    /\ \E f \in {font(FontHeap, request, scale_factor, chain)} :
           /\ loaded_fonts' = f.h.loaded_fonts
           /\ fonts_created' = f.h.fonts_created
           /\ loader_runs' = f.h.loader_runs
           /\ panic' = f.h.panic
           /\ last_font' = [request |-> request, scale_factor |-> scale_factor, chain |-> chain, font |-> f.ret]
    /\ UNCHANGED <<app_fonts, last_draw, canvas_state>>
    /\ UNCHANGED <<platform, windowed_context, frame_open, window_size, canvas_size, images, allocated, image_cache, item_graphics_cache, source, canvas_images, ids_created, delete_calls, first_id, productions, redraw_requested>>

\* register_application_font_from_memory
RegisterApplicationFont(family) ==
    /\ Running
    /\ family \notin app_fonts
    /\ app_fonts' = app_fonts \cup {family}
    /\ UNCHANGED <<loaded_fonts, fonts_created, loader_runs, last_font, last_draw, canvas_state>>
    /\ UNCHANGED image_vars

\* The text items drawn: texts, sizes, wrap, overflow and alignments.
TextItems == [x : {0}, y : {0}, width : TextWidths, height : TextHeights, text : Texts, wrap : {"no_wrap", "word_wrap"}, overflow : {"clip", "elide"}, horizontal_alignment : {"left", "center", "right"}, vertical_alignment : {"top", "center", "bottom"}]

\* Where the item renderer stands when it draws an item.
Pos == <<12, 24>>

\* The font cache after a draw call.
SetFontHeap(h) ==
    /\ loaded_fonts' = h.loaded_fonts
    /\ fonts_created' = h.fonts_created
    /\ loader_runs' = h.loader_runs
    /\ panic' = h.panic

\* A layout asks the font metrics of an item for the line height.
FontMetricsHeight(request, scale_factor, chain) ==
    /\ Running
    /\ \E f \in {GLFontMetrics_height(FontHeap, request, scale_factor, chain)} :
           /\ SetFontHeap(f.h)
           /\ last_font' = [request |-> request, scale_factor |-> scale_factor, chain |-> chain, font |-> [fonts |-> <<>>, pixel_size |-> 0], height |-> f.ret]
    /\ UNCHANGED <<app_fonts, last_draw, canvas_state>>
    /\ UNCHANGED <<platform, windowed_context, frame_open, window_size, canvas_size, images, allocated, image_cache, item_graphics_cache, source, canvas_images, ids_created, delete_calls, first_id, productions, redraw_requested>>

\* draw_text of a text item.
DrawText(item) ==
    /\ Running
    /\ item = last_draw.item
    /\ item \in TextItems
    /\ \E d \in {draw_text(FontHeap, Pos, item)} :
           /\ SetFontHeap(d.h)
           /\ last_draw' = [call |-> "draw_text", item |-> item, ops |-> [n \in DOMAIN d.fills |-> "fill_text"], font |-> d.font, text_size |-> d.text_size, fills |-> d.fills, iterations |-> d.iterations, diverged |-> d.diverged]
           /\ canvas_state' = RunCanvas([n \in DOMAIN d.fills |-> "fill_text"], canvas_state)
    /\ UNCHANGED <<app_fonts, last_font>>
    /\ UNCHANGED <<platform, windowed_context, frame_open, window_size, canvas_size, images, allocated, image_cache, item_graphics_cache, source, canvas_images, ids_created, delete_calls, first_id, productions, redraw_requested>>

\* The text input items drawn: with or without a selection and a cursor.
TextInputItems ==
    {item \in [x : {0}, y : {0}, width : {0, 8, 80}, height : TextHeights, text : InputTexts, horizontal_alignment : {"left", "center", "right"}, vertical_alignment : {"top", "center", "bottom"}, anchor_position : 0..(2 * MaxTextLen), cursor_position : -1..(2 * MaxTextLen), cursor_visible : BOOLEAN, text_cursor_width : {2}] :
        /\ item.anchor_position \in Boundaries(item.text)
        /\ item.cursor_position \in Boundaries(item.text) \cup {-1}}

\* draw_text_input of a text input item.
DrawTextInput(item) ==
    /\ Running
    /\ item = last_draw.item
    /\ item \in TextInputItems
    /\ \E d \in {draw_text_input(FontHeap, Pos, item)} :
           /\ SetFontHeap(d.h)
           /\ last_draw' = [call |-> "draw_text_input", item |-> item, ops |-> d.ops, fills |-> d.fills, selection_rect |-> d.selection_rect, cursor_rect |-> d.cursor_rect]
           /\ canvas_state' = RunCanvas(d.ops, canvas_state)
    /\ UNCHANGED <<app_fonts, last_font>>
    /\ UNCHANGED <<platform, windowed_context, frame_open, window_size, canvas_size, images, allocated, image_cache, item_graphics_cache, source, canvas_images, ids_created, delete_calls, first_id, productions, redraw_requested>>

\* The shape items drawn.
RectangleItems == [x : {0, 4}, y : {0}, width : ShapeLengths, height : ShapeLengths]
BorderRectangleItems == [x : {0, 4}, y : {0}, width : ShapeLengths, height : ShapeLengths, border_width : BorderWidths, border_radius : {0, 4}]
PathItems == [x : {0, 4}, y : {0}, width : ShapeLengths, height : ShapeLengths, elements : {"None", "Elements"}, stroke_width : {4}]
BoxShadowItems == [x : {0, 4}, y : {0}, width : ShapeLengths, height : ShapeLengths, offset_x : {0, 4}, offset_y : {4}, blur : {0, 8}]

\* A draw call that touches the canvas only.
DrawShape(call, item, d) ==
    /\ Running
    /\ last_draw' = [d EXCEPT !.call = call, !.item = item]
    /\ canvas_state' = RunCanvas(d.ops, canvas_state)
    /\ UNCHANGED font_vars
    /\ UNCHANGED image_vars

\* draw_rectangle of a rectangle item.
DrawRectangle(item) ==
    /\ item = last_draw.item /\ item \in RectangleItems
    /\ DrawShape("draw_rectangle", item, [call |-> "", item |-> item] @@ draw_rectangle(Pos, item))

\* draw_border_rectangle of a border rectangle item.
DrawBorderRectangle(item) ==
    /\ item = last_draw.item /\ item \in BorderRectangleItems
    /\ DrawShape("draw_border_rectangle", item, [call |-> "", item |-> item] @@ draw_border_rectangle(Pos, item))

\* draw_path of a path item.
DrawPath(item) ==
    /\ item = last_draw.item /\ item \in PathItems
    /\ DrawShape("draw_path", item, [call |-> "", item |-> item] @@ draw_path(Pos, item))

\* draw_box_shadow of a box shadow item.
DrawBoxShadow(item) ==
    /\ item = last_draw.item /\ item \in BoxShadowItems
    /\ DrawShape("draw_box_shadow", item, [call |-> "", item |-> item] @@ draw_box_shadow(Pos, item))

\* The image items drawn: target sizes, sources (one the decoder rejects,
\* one of pre-decoded pixels), fits and source clip rectangles.
ImageLengths == {-50, 0, 50, 100}
ImageSources == Resources \cup {EmbeddedRgbaImage, EmbeddedData(2, corrupt_bytes)}
ImageItems == [x : {0}, y : {0}, width : ImageLengths, height : ImageLengths, source : ImageSources, image_fit : {"fill", "contain"}]
ClippedImageItems == [x : {0}, y : {0}, width : ImageLengths, height : ImageLengths, source : ImageSources, image_fit : {"fill", "contain"}, source_clip : {NoClip, <<10, 10, 10, 40>>, <<0, 0, -10, 40>>}]

\* A draw call d of draw_image_impl made for an item.
DrawImageImpl(call, item, d) ==
    /\ Running
    /\ ~d.h.full
    /\ SetHeap(d.h)
    /\ NoteFirstId(d)
    /\ last_draw' = [call |-> call, item |-> item, ops |-> d.h.ops, cached_image |-> d.cached_image, image_id |-> d.image_id, image_size |-> d.image_size, source_size |-> d.source_size, scale |-> d.scale]
    /\ UNCHANGED <<platform, frame_open, window_size, source>>
    /\ UNCHANGED font_vars

\* draw_image of an image item.
DrawImageItem(item, gpu_ok) ==
    /\ item = last_draw.item /\ item \in ImageItems
    /\ \E d \in {draw_image_impl(HeapIn(gpu_ok), "image1", item.source, NoClip, item.width, item.height, item.image_fit)} :
           DrawImageImpl("draw_image", item, d)

\* draw_clipped_image of a clipped image item.
DrawClippedImageItem(item, gpu_ok) ==
    /\ item = last_draw.item /\ item \in ClippedImageItems
    /\ \E d \in {draw_image_impl(HeapIn(gpu_ok), "image1", item.source, item.source_clip, item.width, item.height, item.image_fit)} :
           DrawImageImpl("draw_clipped_image", item, d)

\* The image pipeline on a native platform: image items drawn, measured,
\* changed and destroyed over any number of frames.
Next ==
    \/ NewRenderer /\ UNCHANGED <<font_vars, last_draw>>
    \/ FlushRenderer /\ UNCHANGED <<font_vars, last_draw>>
    \/ \E s \in ImageSlots, tw \in TargetLengths, gpu_ok \in BOOLEAN : DrawImage(s, tw, 50, gpu_ok) /\ UNCHANGED <<font_vars, last_draw>>
    \/ \E s \in ImageSlots : ImageSize(s) /\ UNCHANGED <<font_vars, last_draw>>
    \/ \E s \in ImageSlots, r \in Resources : SetSource(s, r) /\ UNCHANGED <<font_vars, last_draw>>
    \/ \E s \in ImageSlots : ReleaseItem(s) /\ UNCHANGED <<font_vars, last_draw>>

Spec == Init /\ [][Next]_vars

\* The image pipeline in the browser: a path resource is fetched
\* asynchronously and completed by the onload callback.
NextWasm ==
    \/ NewRenderer /\ UNCHANGED <<font_vars, last_draw>>
    \/ FlushRenderer /\ UNCHANGED <<font_vars, last_draw>>
    \/ \E gpu_ok \in BOOLEAN : DrawImage("image1", 50, 50, gpu_ok) /\ UNCHANGED <<font_vars, last_draw>>
    \/ ImageSizeOf("image1") /\ UNCHANGED font_vars
    \/ \E r \in Resources : SetSource("image1", r) /\ UNCHANGED <<font_vars, last_draw>>
    \/ ReleaseItem("image1") /\ UNCHANGED <<font_vars, last_draw>>
    \/ \E i \in ImageIndex, window \in BOOLEAN : HtmlImageOnload(i, window) /\ UNCHANGED <<font_vars, last_draw>>

SpecWasm == InitWasm /\ [][NextWasm]_vars

\* Frames of an image item and a pixmap item in a window that is resized.
NextFrame ==
    \/ NewRenderer /\ UNCHANGED <<font_vars, last_draw>>
    \/ FlushRenderer /\ UNCHANGED <<font_vars, last_draw>>
    \/ \E sz \in WindowSizes : ResizeWindow(sz) /\ UNCHANGED <<font_vars, last_draw>>
    \/ \E gpu_ok \in BOOLEAN : DrawImage("image1", 50, 50, gpu_ok) /\ UNCHANGED <<font_vars, last_draw>>
    \/ \E r \in Resources : SetSource("image1", r) /\ UNCHANGED <<font_vars, last_draw>>
    \/ \E s \in PixmapSlots, provides \in BOOLEAN, gpu_ok \in BOOLEAN : DrawCachedPixmap(s, provides, gpu_ok) /\ UNCHANGED <<font_vars, last_draw>>
    \/ \E s \in PixmapSlots : MarkDirty(s) /\ UNCHANGED <<font_vars, last_draw>>
    \/ \E s \in {"image1"} \cup PixmapSlots : ReleaseItem(s) /\ UNCHANGED <<font_vars, last_draw>>

SpecFrame == Init /\ [][NextFrame]_vars

\* Font requests against the font cache.
NextFont ==
    \/ \E request \in FontRequests, scale_factor \in ScaleFactors, chain \in FallbackChains : FontRequested(request, scale_factor, chain)
    \/ \E family \in Families : RegisterApplicationFont(family)

SpecFont == Init /\ [][NextFont]_vars

\* Font requests of draws and line height queries of layouts.
NextMetrics ==
    \/ NextFont
    \/ \E request \in FontRequests, scale_factor \in ScaleFactors, chain \in FallbackChains : FontMetricsHeight(request, scale_factor, chain)

SpecMetrics == Init /\ [][NextMetrics]_vars

\* The items a window may hold.
DrawItems == TextItems \cup TextInputItems \cup RectangleItems \cup BorderRectangleItems \cup PathItems \cup BoxShadowItems \cup ImageItems \cup ClippedImageItems

\* The item of a window drawn by the draw call of its kind.
NextDraw ==
    \/ \E item \in {last_draw.item} : DrawText(item)
    \/ \E item \in {last_draw.item} : DrawTextInput(item)
    \/ \E item \in {last_draw.item} : DrawRectangle(item)
    \/ \E item \in {last_draw.item} : DrawBorderRectangle(item)
    \/ \E item \in {last_draw.item} : DrawPath(item)
    \/ \E item \in {last_draw.item} : DrawBoxShadow(item)
    \/ \E item \in {last_draw.item}, gpu_ok \in BOOLEAN : DrawImageItem(item, gpu_ok)
    \/ \E item \in {last_draw.item}, gpu_ok \in BOOLEAN : DrawClippedImageItem(item, gpu_ok)

InitDraw == InitItem(DrawItems)

SpecDraw == InitDraw /\ [][NextDraw]_vars

\* The resources loaded in the loading specification: two embedded buffers
\* with equal bytes at different addresses, an embedded SVG document, files
\* of both kinds and a file the decoder rejects.
LoadResources == {ResourceNone, EmbeddedData(1, png_bytes), EmbeddedData(2, png_bytes), EmbeddedData(3, svg_bytes), AbsoluteFilePath(png_path), AbsoluteFilePath(svg_path), AbsoluteFilePath(corrupt_path)}

\* The second item shows the buffer of equal bytes or the SVG file.
LoadResourcesOf(s) == IF s = "image1" THEN LoadResources ELSE {EmbeddedData(2, png_bytes), AbsoluteFilePath(svg_path)}

\* Images loaded for layout (image_size) on either platform, outside frames.
NextLoad ==
    \/ \E s \in ImageSlots : \E r \in LoadResourcesOf(s) : SetSource(s, r) /\ UNCHANGED <<font_vars, last_draw>>
    \/ \E s \in ImageSlots : ImageSizeOf(s) /\ UNCHANGED font_vars
    \/ \E s \in ImageSlots : ReleaseItem(s) /\ UNCHANGED <<font_vars, last_draw>>

InitLoad == \E p \in {"native", "wasm32"} : InitOn(p)

SpecLoad == InitLoad /\ [][NextLoad]_vars

\* ------------------------------------------------- the canvas state stack
\* Bound on the states the caller saves on top of the first one.
MaxDepth == 2

\* The rectangles of the Clip items passed to combine_clip.
ClipRects == {"clip_rect"}

\* GLItemRenderer::save_state, restore_state and combine_clip.
save_state(stack) == CanvasApply("save", stack)

restore_state(stack) == CanvasApply("restore", stack)

combine_clip(stack, clip_rect) == IntersectScissor(stack, clip_rect)

\* A call of the item tree walk that touches the canvas state only.
CanvasCall(call, stack) ==
    /\ Running
    /\ canvas_state' = stack
    /\ last_draw' = [call |-> call, item |-> last_draw.item]
    /\ UNCHANGED font_vars
    /\ UNCHANGED image_vars

SaveState == Len(canvas_state) <= MaxDepth /\ CanvasCall("save_state", save_state(canvas_state))

RestoreState == CanvasCall("restore_state", restore_state(canvas_state))

CombineClip(clip_rect) == CanvasCall("combine_clip", combine_clip(canvas_state, clip_rect))

\* A frame call, noted as the last call.
Noted(call) == last_draw' = [call |-> call, item |-> last_draw.item] /\ UNCHANGED font_vars

\* One item of every kind and size class, its text one character long.
CanvasItems ==
    {item \in DrawItems :
        /\ item.width \in {0, 8, 50} /\ item.height \in {40, 50}
        /\ "text" \in DOMAIN item => (Len(item.text) = 1 /\ item.horizontal_alignment = "left" /\ item.vertical_alignment = "top")}

\* Frames in which the item is drawn by its primitive, pixmaps are drawn,
\* and the caller saves, restores and clips.
NextCanvas ==
    \/ NextDraw
    \/ NewRenderer /\ Noted("new_renderer")
    \/ FlushRenderer /\ Noted("flush_renderer")
    \/ \E s \in PixmapSlots, provides \in BOOLEAN, gpu_ok \in BOOLEAN : DrawCachedPixmap(s, provides, gpu_ok) /\ Noted("draw_cached_pixmap")
    \/ SaveState
    \/ RestoreState
    \/ \E clip_rect \in ClipRects : CombineClip(clip_rect)

InitCanvas == InitItem(CanvasItems)

SpecCanvas == InitCanvas /\ [][NextCanvas]_vars

\* ----------------------------------------------------------- properties
\* The external holders of allocation i: the item slots that store it.
Holders(i) == Cardinality({s \in Slots : item_graphics_cache[s].entry = i})

\* The decoder runs recorded in a command log.
Decodes(ops) == Cardinality({j \in DOMAIN ops : ops[j] \in Decoders})

\* C1: ensure_uploaded_to_gpu is idempotent.  Called on any live image during
\* a frame it uploads (create_image) exactly once if the image is CPU-side and
\* not at all otherwise; once a first call has returned an id, every later
\* call uploads nothing and returns that id; a call right after a call
\* uploads nothing and returns the same id.
C1_EnsureUploadedIdempotent ==
    (Running /\ frame_open) =>
        \A i \in 1..allocated, gpu_ok \in BOOLEAN :
            Alive(HeapIn(gpu_ok), i) =>
                LET u == ensure_uploaded_to_gpu(HeapIn(gpu_ok), i)
                    uploads == Count(u.h.ops, "create_image")
                    again == ensure_uploaded_to_gpu([u.h EXCEPT !.ops = <<>>], i)
                IN  ~u.h.full =>
                        /\ uploads = IF images[i].data = "CPUSide" THEN 1 ELSE 0
                        /\ first_id[i] # 0 => uploads = 0 /\ u.ret = first_id[i]
                        /\ u.h.panic = "" =>
                               /\ u.ret # 0
                               /\ u.h.images[i].data = "GPUSide" /\ u.h.images[i].id = u.ret
                               /\ Count(again.h.ops, "create_image") = 0 /\ again.ret = u.ret

\* A frame is open and a live image that was decoded on the CPU has had its
\* first ensure_uploaded_to_gpu call: it holds the id that call returned.
C1_Witness ==
    Running /\ frame_open /\ \E i \in 1..allocated :
        /\ images[i].strong > 0 /\ images[i].origin.kind = "EmbeddedData"
        /\ first_id[i] # 0 /\ images[i].data = "GPUSide" /\ images[i].id = first_id[i]

\* C2: the image cache gives identity.  A lookup of a key whose cached image
\* is still held returns that same instance and runs no decoder; a lookup of
\* a key whose image has no holder left (with or without the frame-end
\* collection having removed the entry) decodes once and returns a new
\* instance.  Every held image of a key is the one the cache has for the key.
C2_CacheIdentity ==
    Running =>
        /\ \A i \in 1..allocated : (images[i].strong > 0 /\ HasKey(images[i].origin)) => image_cache[KeyOf(images[i].origin)] = i
        /\ \A r \in Resources :
               HasKey(r) =>
                   LET p == load_image_resource(HeapIn(TRUE), r)
                       e == image_cache[KeyOf(r)]
                   IN  /\ e # 0 => e <= allocated /\ KeyOf(images[e].origin) = KeyOf(r)
                       /\ ~p.h.full =>
                              IF Alive(HeapIn(TRUE), e)
                              THEN p.ret = e /\ Decodes(p.h.ops) = 0 /\ p.h.allocated = allocated /\ p.h.images[e].strong = images[e].strong + 1
                              ELSE Decodes(p.h.ops) = 1 /\ p.ret = allocated + 1 /\ p.ret # e /\ p.h.image_cache[KeyOf(r)] = p.ret /\ p.h.images[p.ret].strong = 1

\* A first image of a key was dropped by all its holders, and a later lookup
\* of the key made a second image, which two items now share.
C2_Witness ==
    Running /\ \E i \in 1..allocated, j \in 1..allocated :
        /\ i < j /\ HasKey(images[i].origin) /\ images[i].origin = images[j].origin
        /\ images[i].strong = 0 /\ images[j].strong = 2 /\ Holders(j) = 2
        /\ image_cache[KeyOf(images[j].origin)] = j

\* C3: the frame-end collection.  After flush_renderer the image cache holds
\* exactly the keys it held before whose image is still stored by some item;
\* every other entry is gone, and no image is destroyed by the collection.
C3_FrameEndCollection ==
    (Running /\ frame_open) =>
        LET f == flush_renderer(HeapIn(TRUE))
        IN  /\ \A k \in ImageCacheKeys : f.image_cache[k] = IF image_cache[k] # 0 /\ Holders(image_cache[k]) > 0 THEN image_cache[k] ELSE 0
            /\ f.images = images /\ f.canvas_images = canvas_images /\ f.delete_calls = delete_calls

\* After a frame's end: the key of an image no item holds any more has left
\* the cache, while another key stays with its held image.
C3_Witness ==
    Running /\ ~frame_open /\ \E i \in 1..allocated, j \in 1..allocated :
        /\ images[i].strong = 0 /\ HasKey(images[i].origin) /\ image_cache[KeyOf(images[i].origin)] = 0
        /\ images[j].strong > 0 /\ HasKey(images[j].origin) /\ image_cache[KeyOf(images[j].origin)] = j

\* C4: the cache never pins an image.  The strong count of every image is the
\* number of items that store it; an image no item stores is destroyed (its
\* GPU id, if any, deleted) whether or not its key is still in the cache.
C4_CacheNeverPins ==
    Running =>
        \A i \in ImageIndex :
            /\ images[i].strong = Holders(i)
            /\ (i <= allocated /\ Holders(i) = 0 /\ images[i].data = "GPUSide") =>
                   canvas_images[images[i].id] = <<>> /\ delete_calls[images[i].id] = 1

\* During a frame, an uploaded image whose last holder dropped it is
\* destroyed while its key is still in the cache (no collection has run).
C4_Witness ==
    Running /\ frame_open /\ \E i \in 1..allocated :
        /\ images[i].strong = 0 /\ images[i].data = "GPUSide" /\ delete_calls[images[i].id] = 1
        /\ HasKey(images[i].origin) /\ image_cache[KeyOf(images[i].origin)] = i

\* C5: ImageData changes representation one way.  In every step a GPU-side
\* image stays GPU-side and a CPU-side image stays CPU-side or becomes
\* GPU-side.
C5_OneWayTransition ==
    [][\A i \in ImageIndex :
           /\ images[i].data = "GPUSide" => images'[i].data = "GPUSide"
           /\ images[i].data = "CPUSide" => images'[i].data \in {"CPUSide", "GPUSide"}]_vars

\* An embedded image has gone from the CPU to the GPU, and an asynchronously
\* fetched image has been completed by its callback.
C5_Witness ==
    /\ \E i \in 1..allocated : images[i].origin.kind = "EmbeddedData" /\ images[i].data = "GPUSide"
    /\ \E j \in 1..allocated : images[j].fetch = "done" /\ images[j].data = "GPUSide" /\ images[j].upload_pending = "false"

\* C6: the life of a GPU image id.  An id is deleted at most once; the ids
\* alive in the canvas are exactly those held by a live GPU-side image, each
\* by one image; an id the canvas handed out that no live image holds has
\* been deleted exactly once; nothing else was ever deleted.
C6_GpuIdLifecycle ==
    /\ \A id \in ImageIds :
           /\ delete_calls[id] <= 1
           /\ canvas_images[id] # <<>> <=> \E i \in 1..allocated : images[i].strong > 0 /\ images[i].data = "GPUSide" /\ images[i].id = id
           /\ id <= ids_created => (delete_calls[id] = 1 <=> canvas_images[id] = <<>>)
           /\ id > ids_created => delete_calls[id] = 0 /\ canvas_images[id] = <<>>
    /\ \A i \in 1..allocated, j \in 1..allocated :
           (i # j /\ images[i].strong > 0 /\ images[j].strong > 0 /\ images[i].data = "GPUSide" /\ images[j].data = "GPUSide") => images[i].id # images[j].id

\* A GPU-side image was destroyed and its id deleted once, while a live image
\* that was decoded on the CPU (its CPU-side value was replaced and dropped
\* at the upload) holds an id that is alive and was never deleted.
C6_Witness ==
    /\ \E i \in 1..allocated : images[i].strong = 0 /\ images[i].data = "GPUSide" /\ delete_calls[images[i].id] = 1
    /\ \E j \in 1..allocated :
           /\ images[j].strong > 0 /\ images[j].data = "GPUSide" /\ HasKey(images[j].origin)
           /\ canvas_images[images[j].id] # <<>> /\ delete_calls[images[j].id] = 0

\* C7: load_cached_item_image runs the source getter and the producer only
\* when the item's slot is stale: on a valid slot it runs neither and returns
\* the stored entry (a stored None included), on a stale slot it runs them
\* once; the producer has run at most once since the slot was last marked
\* stale.
C7_ProducerOncePerEpoch ==
    Running =>
        \A s \in ImageSlots :
            /\ productions[s] <= 1
            /\ item_graphics_cache[s].cache_ok => productions[s] = 1
            /\ LET c == load_cached_item_image(HeapIn(TRUE), s, source[s])
               IN  ~c.h.full =>
                       IF item_graphics_cache[s].cache_ok
                       THEN /\ Count(c.h.ops, "source_property_getter") = 0 /\ Decodes(c.h.ops) = 0
                            /\ c.ret = item_graphics_cache[s].entry
                            /\ c.h.item_graphics_cache = item_graphics_cache /\ c.h.productions = productions
                       ELSE /\ Count(c.h.ops, "source_property_getter") = 1
                            /\ c.h.productions[s] = productions[s] + 1
                            /\ c.h.panic = "" => c.h.item_graphics_cache[s] = [cache_ok |-> TRUE, entry |-> c.ret]

\* One item's slot is valid with a stored None, another's with a stored
\* image, each after one producer run.
C7_Witness ==
    Running /\ \E s \in ImageSlots, t \in ImageSlots :
        /\ item_graphics_cache[s] = [cache_ok |-> TRUE, entry |-> 0] /\ productions[s] = 1
        /\ item_graphics_cache[t].cache_ok /\ item_graphics_cache[t].entry # 0 /\ productions[t] = 1

\* C8: on a native platform the context is NotCurrent after construction and
\* between frames, and Current from new_renderer to flush_renderer;
\* make_current and make_not_current are idempotent.
C8_ContextState ==
    /\ platform = "native" => windowed_context = IF frame_open THEN "Current" ELSE "NotCurrent"
    /\ \A ctx \in {"NotCurrent", "Current"} :
           /\ make_current(ctx) = "Current" /\ make_current(make_current(ctx)) = make_current(ctx)
           /\ make_not_current(ctx) = "NotCurrent" /\ make_not_current(make_not_current(ctx)) = make_not_current(ctx)

\* A frame is open, the context Current, after an earlier frame's end
\* collected the entry of a dropped image.
C8_Witness ==
    /\ frame_open /\ windowed_context = "Current"
    /\ \E i \in 1..allocated : images[i].strong = 0 /\ HasKey(images[i].origin) /\ image_cache[KeyOf(images[i].origin)] = 0

\* C9: the order of a native frame.  The frame's end flushes the canvas,
\* presents (swap_buffers, while the context is current), releases the
\* context, then collects the image cache; the frame's begin makes the
\* context current, then sets the canvas to the window's size and clears it.
C9_FrameOrder ==
    (Running /\ platform = "native") =>
        /\ frame_open => flush_renderer(HeapIn(TRUE)).ops = <<"flush", "swap_buffers", "make_not_current", "retain">>
        /\ frame_open => canvas_size \in WindowSizes
        /\ ~frame_open =>
               LET n == new_renderer(HeapIn(TRUE), window_size)
               IN  n.ops = <<"make_current", "set_size", "clear_rect">> /\ n.canvas_size = window_size /\ n.windowed_context = "Current"

\* A frame was begun after the window was resized (the canvas has the new
\* size), and an earlier frame's end has collected a dropped image.
C9_Witness ==
    /\ frame_open /\ window_size = <<800, 600>> /\ canvas_size = window_size
    /\ \E i \in 1..allocated : images[i].strong = 0 /\ HasKey(images[i].origin) /\ image_cache[KeyOf(images[i].origin)] = 0

\* C10: FontCache::font defaults.  The GLFont's pixel size is the request's,
\* or 12 times the scale factor when unset; the primary font is memoised under
\* the key of the request's family and its weight, or 400 when unset (never
\* under an unresolved weight); family Sans with nothing set at scale 2 gives
\* pixel size 24 and weight 400.
C10_FontDefaults ==
    Running =>
        /\ \A request \in FontRequests, scale_factor \in ScaleFactors, chain \in FallbackChains :
               LET f == font(FontHeap, request, scale_factor, chain)
                   key == [family |-> request.family, weight |-> IF request.weight = Unset THEN 400 ELSE request.weight]
               IN  /\ f.h.panic = ""
                   /\ f.ret.pixel_size = IF request.pixel_size = Unset THEN 12 * scale_factor ELSE request.pixel_size
                   /\ f.h.loaded_fonts[key] # 0 /\ f.ret.fonts[1] = f.h.loaded_fonts[key]
                   /\ \A k \in FontCacheKeys : (k.family = request.family /\ k.weight # key.weight) => f.h.loaded_fonts[k] = loaded_fonts[k]
        /\ font(FontHeap, [family |-> "Sans", weight |-> Unset, pixel_size |-> Unset], 2, <<>>).ret.pixel_size = 24
        /\ last_font.scale_factor # 0 =>
               last_font.font.pixel_size = IF last_font.request.pixel_size = Unset THEN 12 * last_font.scale_factor ELSE last_font.request.pixel_size

\* The last request was family Sans with nothing set at scale factor 2: its
\* font has pixel size 24 and is the font memoised for (Sans, 400).
C10_Witness ==
    /\ last_font.request = [family |-> "Sans", weight |-> Unset, pixel_size |-> Unset] /\ last_font.scale_factor = 2
    /\ last_font.font.pixel_size = 24 /\ last_font.font.fonts[1] = loaded_fonts[[family |-> "Sans", weight |-> 400]]
    /\ loaded_fonts[[family |-> "Sans", weight |-> 400]] # 0

\* C11: the font loader runs at most once per (family, weight) key.  Every
\* key has had one loader run if it is in the cache and none otherwise; a
\* request of any pixel size whose key is cached gets the cached handle with
\* no loader run; no request removes or remaps an entry of the cache.
C11_FontLoadedOncePerKey ==
    Running =>
        /\ \A key \in FontCacheKeys : loader_runs[key] = IF loaded_fonts[key] # 0 THEN 1 ELSE 0
        /\ \A request \in FontRequests, scale_factor \in ScaleFactors, chain \in FallbackChains :
               LET f == font(FontHeap, request, scale_factor, chain)
                   key == [family |-> request.family, weight |-> IF request.weight = Unset THEN 400 ELSE request.weight]
               IN  /\ \A k \in FontCacheKeys : loaded_fonts[k] # 0 => f.h.loaded_fonts[k] = loaded_fonts[k] /\ f.h.loader_runs[k] = 1
                   /\ \A k \in FontCacheKeys : f.h.loader_runs[k] <= 1
                   /\ loaded_fonts[key] # 0 => f.ret.fonts[1] = loaded_fonts[key]
                   /\ (loaded_fonts[key] # 0 /\ chain = <<>>) => f.h.ops = <<>>

\* The last request, of pixel size 10, got the first font handle ever loaded
\* as its primary font after other fonts had been loaded by other requests.
C11_Witness ==
    /\ fonts_created >= 3 /\ last_font.request.pixel_size = 10 /\ last_font.font.fonts[1] = 1
    /\ \E key \in FontCacheKeys : loaded_fonts[key] = 1 /\ loader_runs[key] = 1

\* The trace of a wrap loop over a text: every iteration asked break_text
\* for the text left at its start, an iteration with a positive index is
\* followed by one at a start further on, one with index 0 is the last, and
\* the loop has ended.
WrapLoopEnds(text, max_width, iterations, diverged) ==
    /\ ~diverged
    /\ iterations = <<>> => text = <<>>
    /\ iterations # <<>> => iterations[1].start = 0
    /\ \A n \in DOMAIN iterations :
           /\ iterations[n].start < Len(text)
           /\ iterations[n].index = break_text(max_width, SubSeq(text, iterations[n].start + 1, Len(text)))
           /\ n < Len(iterations) =>
                  /\ iterations[n].index > 0
                  /\ iterations[n + 1].start = iterations[n].start + iterations[n].index
                  /\ iterations[n + 1].start > iterations[n].start
           /\ n = Len(iterations) => iterations[n].index = 0 \/ iterations[n].start + iterations[n].index >= Len(text)

\* C12: word-wrapped layout terminates for every text and width: in
\* draw_text and in GLFont::text_size the start offset strictly increases
\* from one iteration to the next, and the loop stops at the iteration in
\* which the break query returns a zero-length prefix.
C12_WrapTerminates ==
    (last_draw.call = "draw_text" /\ last_draw.item.wrap = "word_wrap" /\ last_draw.item.width > 0 /\ last_draw.item.height > 0) =>
        /\ WrapLoopEnds(last_draw.item.text, last_draw.item.width, last_draw.iterations, last_draw.diverged)
        /\ WrapLoopEnds(last_draw.item.text, last_draw.item.width, last_draw.text_size.iterations, last_draw.text_size.diverged)

C12_Witness ==
    /\ last_draw.call = "draw_text" /\ last_draw.item.wrap = "word_wrap"
    /\ Len(last_draw.iterations) >= 2 /\ last_draw.iterations[Len(last_draw.iterations)].index = 0
    /\ Len(last_draw.fills) >= 1
    /\ Len(last_draw.text_size.iterations) >= 2 /\ last_draw.text_size.iterations[Len(last_draw.text_size.iterations)].index = 0
    /\ ~last_draw.diverged /\ ~last_draw.text_size.diverged

\* The pieces of a text a line break cannot split: its words (the runs
\* without white space) and its white space characters, each as
\* [first, last].
Unbreakable(text) ==
    {w \in (DOMAIN text) \X (DOMAIN text) :
        /\ w[1] <= w[2]
        /\ \/ w[1] = w[2] /\ is_whitespace(text[w[1]])
           \/ /\ \A k \in w[1]..w[2] : ~is_whitespace(text[k])
              /\ w[1] = 1 \/ is_whitespace(text[w[1] - 1])
              /\ w[2] = Len(text) \/ is_whitespace(text[w[2] + 1])}

WidestWord(text) ==
    IF Unbreakable(text) = {} THEN 0
    ELSE CHOOSE m \in {MeasureWidth(SubSeq(text, w[1], w[2])) : w \in Unbreakable(text)} :
             \A w \in Unbreakable(text) : MeasureWidth(SubSeq(text, w[1], w[2])) <= m

\* C13: with word wrap on and a wrap width at least the width of the widest
\* single word, every line draw_text draws measures at most the wrap width,
\* and the lines are the (trimmed) consecutive, non-overlapping pieces of
\* the text, each a prefix of what was left, that together cover the whole
\* text.
C13_WrappedLinesFit ==
    (/\ last_draw.call = "draw_text" /\ last_draw.item.wrap = "word_wrap"
     /\ last_draw.item.width > 0 /\ last_draw.item.height > 0
     /\ last_draw.item.width >= WidestWord(last_draw.item.text)) =>
        LET text == last_draw.item.text
            it == last_draw.iterations
            fills == last_draw.fills
        IN  /\ Len(fills) = Len(it)
            /\ \A n \in DOMAIN fills :
                   /\ it[n].index > 0
                   /\ it[n].start = (IF n = 1 THEN 0 ELSE it[n - 1].start + it[n - 1].index)
                   /\ fills[n].text = trim(SubSeq(text, it[n].start + 1, it[n].start + it[n].index))
                   /\ MeasureWidth(fills[n].text) <= last_draw.item.width
                   /\ MeasureWidth(SubSeq(text, it[n].start + 1, it[n].start + it[n].index)) <= last_draw.item.width
            /\ (IF it = <<>> THEN 0 ELSE it[Len(it)].start + it[Len(it)].index) = Len(text)

C13_Witness ==
    /\ last_draw.call = "draw_text" /\ last_draw.item.wrap = "word_wrap"
    /\ last_draw.item.width = WidestWord(last_draw.item.text)
    /\ Len(last_draw.fills) >= 2
    /\ \E n \in DOMAIN last_draw.fills : MeasureWidth(last_draw.fills[n].text) = last_draw.item.width
    /\ \E n \in DOMAIN last_draw.fills : last_draw.fills[n].text # SubSeq(last_draw.item.text, last_draw.iterations[n].start + 1, last_draw.iterations[n].start + last_draw.iterations[n].index)

\* The lines of the text drawn last, without wrapping and with overflow =
\* elide, whose measured width exceeds max_width.
ElidedLines ==
    IF last_draw.call = "draw_text" /\ last_draw.item.wrap = "no_wrap" /\ last_draw.item.overflow = "elide" /\ last_draw.item.width > 0 /\ last_draw.item.height > 0
    THEN {n \in DOMAIN lines(last_draw.item.text) : MeasureWidth(lines(last_draw.item.text)[n]) > last_draw.item.width}
    ELSE {}

\* Line n of the text was drawn as a prefix of it followed by the
\* ellipsis, and what was drawn measures at most max_width.
DrawnElided(n) ==
    LET line == lines(last_draw.item.text)[n]
        drawn == last_draw.fills[n].text
    IN  /\ Len(last_draw.fills) = Len(lines(last_draw.item.text))
        /\ drawn # <<>> /\ drawn[Len(drawn)] = Ellipsis
        /\ Len(drawn) - 1 < Len(line) /\ SubSeq(drawn, 1, Len(drawn) - 1) = SubSeq(line, 1, Len(drawn) - 1)
        /\ MeasureWidth(drawn) <= last_draw.item.width

\* C14 as stated: without wrapping and with overflow = elide, every line
\* wider than max_width is drawn ending with the ellipsis and measuring at
\* most max_width, for every positive max_width, also one narrower than the
\* ellipsis.
C14_ElidedLineFitsAnyWidth ==
    \A n \in ElidedLines : DrawnElided(n)

\* C14 (amended): without wrapping and with overflow = elide, every line
\* wider than max_width is drawn ending with the ellipsis and measuring at
\* most max_width, for every max_width that is at least the width of the
\* ellipsis.
C14_ElidedLineFits ==
    last_draw.item.width >= MeasureWidth(<<Ellipsis>>) => \A n \in ElidedLines : DrawnElided(n)

C14_Witness ==
    /\ last_draw.item.width >= MeasureWidth(<<Ellipsis>>)
    /\ \E n \in ElidedLines : DrawnElided(n) /\ Len(last_draw.fills[n].text) >= 2 /\ MeasureWidth(last_draw.fills[n].text) < last_draw.item.width

\* The x offset applied to fill n of the item drawn last: where the text
\* was put, from the left edge of the item.
OffsetX(n) == last_draw.fills[n].x - (Pos[1] + last_draw.item.x)

\* C15: in draw_text and in draw_text_impl the x offset applied to a drawn
\* line is 0 for left alignment, max_width - line_width for right alignment
\* and, for center alignment and every positive max_width >= line_width,
\* exactly (max_width - line_width) / 2.
C15_AlignmentOffsets ==
    last_draw.call \in {"draw_text", "draw_text_input"} =>
        \A n \in DOMAIN last_draw.fills :
            LET max_width == last_draw.item.width
                line_width == MeasureWidth(last_draw.fills[n].text)
            IN  /\ last_draw.item.horizontal_alignment = "left" => OffsetX(n) = 0
                /\ last_draw.item.horizontal_alignment = "right" => OffsetX(n) = max_width - line_width
                /\ (last_draw.item.horizontal_alignment = "center" /\ max_width > 0 /\ max_width >= line_width) => 2 * OffsetX(n) = max_width - line_width

C15_Witness ==
    /\ last_draw.call = "draw_text" /\ last_draw.item.horizontal_alignment = "center"
    /\ Len(last_draw.fills) >= 2
    /\ \E n \in DOMAIN last_draw.fills : MeasureWidth(last_draw.fills[n].text) > 0 /\ OffsetX(n) > 0
    /\ \E n \in DOMAIN last_draw.fills : MeasureWidth(last_draw.fills[n].text) = last_draw.item.width /\ OffsetX(n) = 0

\* C16: draw_border_rectangle uses the effective border min(B, W / 2) of the
\* requested border B and the item width W: it strokes with that line
\* width, and the rectangle it fills and strokes is the item's geometry
\* inset by half the effective border on each of its four sides (origin
\* shifted by half of it, width and height reduced by it).
C16_BorderGeometry ==
    (last_draw.call = "draw_border_rectangle" /\ last_draw.ops # <<>>) =>
        LET item == last_draw.item
            \* twice min(B, W / 2)
            twice_effective_border == IF 2 * item.border_width <= item.width THEN 2 * item.border_width ELSE item.width
        IN  /\ 2 * last_draw.line_width = twice_effective_border
            /\ 4 * (last_draw.path.x - item.x) = twice_effective_border
            /\ 4 * (last_draw.path.y - item.y) = twice_effective_border
            /\ 2 * (item.width - last_draw.path.width) = twice_effective_border
            /\ 2 * (item.height - last_draw.path.height) = twice_effective_border
            /\ 4 * ((item.x + item.width) - (last_draw.path.x + last_draw.path.width)) = twice_effective_border
            /\ 4 * ((item.y + item.height) - (last_draw.path.y + last_draw.path.height)) = twice_effective_border
            /\ last_draw.ops = <<"save", "translate", "fill_path", "stroke_path", "restore">>

C16_Witness ==
    /\ last_draw.call = "draw_border_rectangle"
    /\ last_draw.item.border_width = 40 /\ last_draw.item.width = 8 /\ last_draw.item.height = 40
    /\ last_draw.line_width = 4 /\ last_draw.path.width = 4 /\ last_draw.path.height = 36

\* C17: every draw primitive called with a target width <= 0 or a target
\* height <= 0 is a no-op: it issues no canvas command (no fill, stroke or
\* text), loads no image and uploads none to the GPU, and leaves the canvas
\* as it was.  This is stated for rectangles, border rectangles, images
\* (a height of exactly 0 included), text, text input, paths and box
\* shadows.
C17_NonPositiveSizeIsNoOp ==
    (last_draw.call # "none" /\ (last_draw.item.width <= 0 \/ last_draw.item.height <= 0)) =>
        /\ last_draw.ops = <<>>
        /\ panic = ""
        /\ allocated = 0 /\ ids_created = 0

\* The order of two quotients of lengths with positive denominators.
QuotientLeq(q, r) == q[1] * r[2] <= r[1] * q[2]

\* C18: draw_image_impl scales from the source size, which is the size of
\* the image when the source clip rectangle is empty and the size of the
\* clip rectangle otherwise; with image_fit = fill it applies the two
\* scales target_width / source_width and target_height / source_height,
\* with image_fit = contain one uniform scale, the larger of the two (an
\* image of 100x50 drawn into 50x50 is scaled by 1.0).
C18_ImageFitScale ==
    (last_draw.call \in {"draw_image", "draw_clipped_image"} /\ last_draw.scale # <<>>) =>
        LET item == last_draw.item
            clip == IF last_draw.call = "draw_clipped_image" THEN item.source_clip ELSE NoClip
            from == IF clip[3] <= 0 \/ clip[4] <= 0 THEN last_draw.image_size ELSE <<clip[3], clip[4]>>
            x_ratio == <<item.width, from[1]>>
            y_ratio == <<item.height, from[2]>>
        IN  /\ last_draw.image_size = DecodedSize(item.source)
            /\ last_draw.source_size = from
            /\ from[1] > 0 /\ from[2] > 0
            /\ item.image_fit = "fill" => last_draw.scale = <<x_ratio, y_ratio>>
            /\ item.image_fit = "contain" =>
                   /\ last_draw.scale[1] = last_draw.scale[2]
                   /\ last_draw.scale[1] \in {x_ratio, y_ratio}
                   /\ QuotientLeq(x_ratio, last_draw.scale[1]) /\ QuotientLeq(y_ratio, last_draw.scale[1])
                   /\ (from = <<100, 50>> /\ item.width = 50 /\ item.height = 50) => last_draw.scale[1][1] = last_draw.scale[1][2]

C18_Witness ==
    /\ last_draw.call = "draw_image" /\ last_draw.item.image_fit = "contain"
    /\ last_draw.item.width = 50 /\ last_draw.item.height = 50
    /\ last_draw.image_size = <<100, 50>> /\ last_draw.source_size = <<100, 50>>
    /\ last_draw.scale = <<<<50, 50>>, <<50, 50>>>>
    /\ Count(last_draw.ops, "scale") = 1 /\ Count(last_draw.ops, "fill_path") = 1

\* The heap of a call made when the canvas knows none of the image ids.
HeapWithoutCanvasImages == [HeapIn(TRUE) EXCEPT !.canvas_images = [id \in ImageIds |-> <<>>]]

\* C19: CachedImage::size never fails.  It returns (1, 1) for a GPU-side
\* image whose upload-pending flag is true, the dimensions the canvas
\* reports for a GPU-side image that is not pending, the dimensions of the
\* decoded buffer for a CPU-side image, and (0, 0) when the canvas does not
\* know the id.  image_size returns (0, 0) when the resource yields no
\* image.
C19_SizeNeverFails ==
    Running =>
        /\ \A i \in 1..allocated : images[i].strong > 0 =>
               /\ (images[i].data = "GPUSide" /\ images[i].upload_pending = "true") =>
                      /\ size(HeapIn(TRUE), i) = <<1, 1>>
                      /\ size(HeapWithoutCanvasImages, i) = <<1, 1>>
               /\ (images[i].data = "GPUSide" /\ images[i].upload_pending # "true") =>
                      /\ canvas_images[images[i].id] # <<>>
                      /\ size(HeapIn(TRUE), i) = canvas_images[images[i].id]
                      /\ size(HeapWithoutCanvasImages, i) = <<0, 0>>
               /\ images[i].data = "CPUSide" =>
                      /\ size(HeapIn(TRUE), i) = DecodedSize(images[i].origin)
                      /\ size(HeapWithoutCanvasImages, i) = DecodedSize(images[i].origin)
        /\ \A s \in ImageSlots :
               /\ source[s] = ResourceNone =>
                      /\ image_size(HeapIn(TRUE), s, source[s]).ret = <<0, 0>>
                      /\ image_size(HeapIn(TRUE), s, source[s]).h.panic = ""
               /\ (item_graphics_cache[s].cache_ok /\ item_graphics_cache[s].entry # 0) =>
                      image_size(HeapIn(TRUE), s, source[s]).ret = size(HeapIn(TRUE), item_graphics_cache[s].entry)
        /\ last_draw.call = "image_size" =>
               /\ last_draw.size \in {<<0, 0>>, <<1, 1>>, DecodedSize(last_draw.source)}
               /\ last_draw.source = ResourceNone => last_draw.size = <<0, 0>>

C19_Witness ==
    /\ Running
    /\ last_draw.call = "image_size" /\ last_draw.size = <<1, 1>> /\ last_draw.source = source["image1"]
    /\ item_graphics_cache["image1"].cache_ok /\ item_graphics_cache["image1"].entry # 0
    /\ images[item_graphics_cache["image1"].entry].data = "GPUSide"
    /\ images[item_graphics_cache["image1"].entry].upload_pending = "true"

\* C20: load_image_resource given the EmbeddedRgbaImage variant fails at
\* once with a not-implemented failure, which differs from the failure of
\* an image that cannot be decoded; it returns nothing and inserts nothing
\* into the image cache.  Given Resource::None it returns no entry and
\* leaves the image cache as it was.
C20_UnimplementedVariantFailsFast ==
    /\ Running =>
           LET rgba == load_image_resource(HeapIn(TRUE), EmbeddedRgbaImage)
               corrupt == load_image_resource(HeapIn(TRUE), EmbeddedData(2, corrupt_bytes))
               none == load_image_resource(HeapIn(TRUE), ResourceNone)
           IN  /\ rgba.ret = 0 /\ rgba.h.panic = "not implemented"
               /\ rgba.h.ops = <<>>
               /\ rgba.h.image_cache = image_cache /\ rgba.h.images = images /\ rgba.h.allocated = allocated
               /\ (image_cache[ImageCacheKey_EmbeddedData(2)] = 0 \/ ~Alive(HeapIn(TRUE), image_cache[ImageCacheKey_EmbeddedData(2)])) =>
                      corrupt.h.panic = "decode" /\ corrupt.h.panic # rgba.h.panic
               /\ none.ret = 0 /\ none.h = HeapIn(TRUE)
    /\ (last_draw.call \in {"draw_image", "draw_clipped_image"} /\ last_draw.item.width > 0 /\ last_draw.item.height >= 0) =>
           /\ last_draw.item.source = EmbeddedRgbaImage =>
                  /\ panic = "not implemented"
                  /\ last_draw.cached_image = 0 /\ allocated = 0
                  /\ \A k \in ImageCacheKeys : image_cache[k] = 0
                  /\ Count(last_draw.ops, "fill_path") = 0
           /\ last_draw.item.source = EmbeddedData(2, corrupt_bytes) => panic = "decode"
           /\ last_draw.item.source = ResourceNone =>
                  /\ panic = ""
                  /\ last_draw.cached_image = 0 /\ allocated = 0
                  /\ \A k \in ImageCacheKeys : image_cache[k] = 0

C20_Witness ==
    /\ last_draw.call = "draw_image" /\ last_draw.item.source = EmbeddedRgbaImage
    /\ panic = "not implemented"
    /\ allocated = 0 /\ \A k \in ImageCacheKeys : image_cache[k] = 0

\* C21: embedded images are keyed by the address of the buffer, not by its
\* content.  Two embedded buffers with equal bytes at different addresses
\* get two cache entries and two CachedImage instances, the same buffer
\* looked up twice shares one instance, and the key of a path is never the
\* key of an embedded buffer.
C21_EmbeddedKeyedByAddress ==
    Running =>
        /\ \A p \in AllPaths, a \in AllAddrs : ImageCacheKey_Path(p) # ImageCacheKey_EmbeddedData(a)
        /\ \A i \in 1..allocated : (images[i].strong > 0 /\ images[i].origin.kind = "EmbeddedData") =>
               /\ image_cache[ImageCacheKey_EmbeddedData(images[i].origin.addr)] = i
               /\ \A k \in ImageCacheKeys : image_cache[k] = i => k = ImageCacheKey_EmbeddedData(images[i].origin.addr)
        /\ \A i \in 1..allocated, j \in 1..allocated :
               (/\ images[i].strong > 0 /\ images[j].strong > 0
                /\ images[i].origin.kind = "EmbeddedData" /\ images[j].origin.kind = "EmbeddedData"
                /\ images[i].origin.addr # images[j].origin.addr) => i # j
        /\ \A i \in 1..allocated, j \in 1..allocated :
               (/\ images[i].strong > 0 /\ images[j].strong > 0
                /\ images[i].origin.kind = "EmbeddedData" /\ images[j].origin.kind = "AbsoluteFilePath") => i # j
        /\ \A a \in {1, 2} :
               LET first == load_image_resource(HeapIn(TRUE), EmbeddedData(a, png_bytes))
                   again == load_image_resource(first.h, EmbeddedData(a, png_bytes))
                   other == load_image_resource(first.h, EmbeddedData(3 - a, png_bytes))
               IN  /\ ~first.h.full => first.ret # 0 /\ first.h.image_cache[ImageCacheKey_EmbeddedData(a)] = first.ret
                   /\ ~again.h.full => again.ret = first.ret /\ Decodes(again.h.ops) = Decodes(first.h.ops)
                   /\ ~other.h.full =>
                          /\ other.ret # first.ret
                          /\ other.h.image_cache[ImageCacheKey_EmbeddedData(3 - a)] = other.ret
                          /\ other.h.image_cache[ImageCacheKey_EmbeddedData(a)] = first.ret

C21_Witness ==
    /\ Running
    /\ \E i \in 1..allocated, j \in 1..allocated :
           /\ i # j /\ images[i].strong = 1 /\ images[j].strong = 1
           /\ images[i].origin = EmbeddedData(1, png_bytes) /\ images[j].origin = EmbeddedData(2, png_bytes)
           /\ image_cache[ImageCacheKey_EmbeddedData(1)] = i /\ image_cache[ImageCacheKey_EmbeddedData(2)] = j
           /\ item_graphics_cache["image1"].entry = i /\ item_graphics_cache["image2"].entry = j

\* The decoders of the SVG decode path and the raster decoders.
SvgDecoders == {"svg::load_from_path", "svg::load_from_data"}

RasterDecoders == {"image::open", "image::load_from_memory"}

\* The resource is structurally an SVG document (content or extension).
IsSvg(r) ==
    IF r.kind = "EmbeddedData" THEN StartsWith(r.bytes, <<"<", "s", "v", "g">>)
    ELSE EndsWith(r.path, <<".", "s", "v", "g">>)

\* A lookup of the resource in heap h misses the cache.
CacheMiss(h, r) == ~Alive(h, h.image_cache[KeyOf(r)])

\* The commands of a command log.
Range(ops) == {ops[j] : j \in DOMAIN ops}

\* The decoders a command log names, in order.
DecodersIn(ops) == SelectSeq(ops, LAMBDA o : o \in Decoders)

\* The load of resource r, when it misses, runs exactly one decoder: the
\* SVG one for an SVG document and the raster one otherwise.
RoutedOnMiss(r) ==
    LET h == HeapIn(TRUE)
        p == load_image_resource(h, r)
    IN  (CacheMiss(h, r) /\ ~p.h.full) =>
            /\ Len(DecodersIn(p.h.ops)) = 1
            /\ IsSvg(r) => DecodersIn(p.h.ops)[1] \in SvgDecoders
            /\ ~IsSvg(r) => DecodersIn(p.h.ops)[1] \in RasterDecoders

Fetching == {i \in 1..allocated : images[i].fetch = "pending"}

\* C23: an asynchronously fetched image.  The placeholder is created
\* GPU-side with the pending flag true.  The completion callback replaces
\* the pixel storage of the same GPU id, sets the pending flag to false and
\* requests a redraw; the cache entry and the strong count of the shared
\* reference are as before.  The flag never goes back to true.  When the
\* image (or the window) has been dropped before completion the callback
\* changes no canvas or cache state and requests no redraw.
C23_AsyncFetch ==
    /\ [](Running =>
           /\ \A r \in Resources : (r.kind = "AbsoluteFilePath" /\ CacheMiss(HeapIn(TRUE), r)) =>
                  LET p == load_image_resource(HeapIn(TRUE), r)
                  IN  ~Stopped(p.h) =>
                          /\ p.h.images[p.ret].data = "GPUSide"
                          /\ p.h.images[p.ret].upload_pending = "true"
                          /\ p.h.images[p.ret].fetch = "pending"
                          /\ CanvasImageInfo(p.h, p.h.images[p.ret].id) = <<1, 1>>
                          /\ p.h.image_cache[KeyOf(r)] = p.ret
           /\ \A i \in Fetching :
                  LET h == HeapIn(TRUE)
                      q == html_image_onload(h, i, TRUE)
                  IN  /\ images[i].strong > 0 =>
                          /\ images[i].data = "GPUSide" /\ images[i].upload_pending = "true"
                          /\ q.panic = ""
                          /\ q.images[i].data = "GPUSide"
                          /\ q.images[i].id = images[i].id
                          /\ q.images[i].upload_pending = "false"
                          /\ q.images[i].strong = images[i].strong
                          /\ q.canvas_images = [canvas_images EXCEPT ![images[i].id] = DecodedSize(images[i].origin)]
                          /\ q.image_cache = image_cache
                          /\ q.item_graphics_cache = item_graphics_cache
                          /\ q.ids_created = ids_created /\ q.delete_calls = delete_calls
                          /\ q.redraw_requested
                          /\ q.ops = <<"realloc_image", "update_image", "request_redraw">>
                          /\ html_image_onload(h, i, FALSE) = h
                      /\ images[i].strong = 0 => q = h /\ html_image_onload(h, i, FALSE) = h)
    /\ [][\A i \in ImageIndex :
              /\ (images[i].strong > 0 /\ images[i].upload_pending = "false") => images'[i].upload_pending # "true"
              /\ (images[i].fetch = "pending" /\ images'[i].fetch = "done" /\ images[i].strong = 0) =>
                     /\ images' = [images EXCEPT ![i].fetch = "done"]
                     /\ UNCHANGED <<canvas_images, image_cache, item_graphics_cache, ids_created, delete_calls, allocated, redraw_requested, panic>>
              /\ (images[i].fetch = "pending" /\ images'[i].fetch = "done" /\ images[i].strong > 0) =>
                     \/ /\ images' = [images EXCEPT ![i].fetch = "done"]
                        /\ UNCHANGED <<canvas_images, image_cache, item_graphics_cache, ids_created, delete_calls, allocated, redraw_requested, panic>>
                     \/ /\ images' = [images EXCEPT ![i].fetch = "done", ![i].upload_pending = "false"]
                        /\ canvas_images' = [canvas_images EXCEPT ![images[i].id] = DecodedSize(images[i].origin)]
                        /\ redraw_requested'
                        /\ UNCHANGED <<image_cache, item_graphics_cache, ids_created, delete_calls, allocated, panic>>]_vars

\* One fetch has completed on a live image that the cache and the item
\* still share, and the callback of another fetch has run after its image
\* was dropped.
C23_Witness ==
    /\ Running
    /\ redraw_requested
    /\ \E i \in 1..allocated, j \in 1..allocated :
           /\ images[i].fetch = "done" /\ images[i].strong > 0
           /\ images[i].data = "GPUSide" /\ images[i].upload_pending = "false"
           /\ image_cache[KeyOf(images[i].origin)] = i
           /\ item_graphics_cache["image1"].entry = i
           /\ images[j].fetch = "done" /\ images[j].strong = 0

\* C24: a GPU image creation failure is recoverable.  When the canvas
\* refuses to create an image during a draw call, draw_image_impl and
\* draw_cached_pixmap skip the image (nothing is filled), the renderer keeps
\* running, and an image that was CPU-side stays CPU-side.
C24_GpuFailureSkipsImage ==
    (Running /\ frame_open) =>
        /\ LET d == draw_image_impl(HeapIn(FALSE), "image1", source["image1"], NoClip, 50, 50, "fill")
           IN  ~d.h.full =>
                   /\ d.h.panic = ""
                   /\ (d.cached_image # 0 /\ "create_image" \in Range(d.h.ops)) =>
                          /\ d.h.images[d.cached_image].data = "CPUSide"
                          /\ "fill_path" \notin Range(d.h.ops)
        /\ \A s \in PixmapSlots :
               LET p == draw_cached_pixmap(HeapIn(FALSE), s, TRUE)
               IN  ~p.h.full =>
                       /\ p.h.panic = ""
                       /\ "create_image" \in Range(p.h.ops) => "fill_path" \notin Range(p.h.ops)

\* C25: the GPU upload is lazy and happens only inside a draw.  A load or
\* an image_size query leaves a newly decoded image CPU-side, leaves every
\* CPU-side image CPU-side and issues no create_image; an image becomes
\* GPU-side, and the canvas creates an id, only in a step taken between
\* new_renderer and flush_renderer while the GPU context is current.
C25_UploadOnlyInsideDraw ==
    /\ [](Running =>
           /\ \A r \in Resources : (HasKey(r) /\ CacheMiss(HeapIn(TRUE), r)) =>
                  LET p == load_image_resource(HeapIn(TRUE), r)
                  IN  ~Stopped(p.h) =>
                          /\ p.h.images[p.ret].data = "CPUSide"
                          /\ "create_image" \notin Range(p.h.ops)
                          /\ p.h.ids_created = ids_created
           /\ \A s \in ImageSlots :
                  LET q == image_size(HeapIn(TRUE), s, source[s])
                  IN  ~q.h.full =>
                          /\ "create_image" \notin Range(q.h.ops)
                          /\ q.h.ids_created = ids_created
                          /\ \A i \in 1..q.h.allocated : q.h.images[i].data = "GPUSide" => (i <= allocated /\ images[i].data = "GPUSide"))
    /\ [][/\ (\E i \in ImageIndex : images[i].data # "GPUSide" /\ images'[i].data = "GPUSide") =>
                 (frame_open /\ frame_open' /\ windowed_context = "Current" /\ windowed_context' = "Current")
          /\ ids_created' # ids_created =>
                 (frame_open /\ frame_open' /\ windowed_context = "Current" /\ windowed_context' = "Current")]_vars

\* A decoded image has been measured and then uploaded by a draw, inside a
\* frame, while the image of the other item is still CPU-side.
C25_Witness ==
    /\ Running /\ frame_open /\ windowed_context = "Current"
    /\ \E i \in 1..allocated, j \in 1..allocated :
           /\ images[i].strong > 0 /\ images[i].data = "GPUSide" /\ images[i].origin.kind = "EmbeddedData"
           /\ images[j].strong > 0 /\ images[j].data = "CPUSide" /\ images[j].origin.kind = "AbsoluteFilePath"

\* C26: a decode failure in load_image_resource is fatal and leaves the
\* image cache as it was.  Loading a resource the decoder rejects ends in
\* the unrecoverable failure, not in an absent image; the cache, the
\* allocations and the images are as before the call, so no entry was
\* inserted for the vacant key and no weak reference to a partially built
\* image was stored.
C26_DecodeFailureIsFatal ==
    /\ [](Running =>
           \A r \in LoadResources :
               (HasKey(r) /\ ~Decodable(r) /\ (r.kind = "AbsoluteFilePath" => platform = "native")) =>
                   LET p == load_image_resource(HeapIn(TRUE), r)
                   IN  /\ p.h.panic = "decode"
                       /\ Len(DecodersIn(p.h.ops)) = 1
                       /\ p.h.image_cache = image_cache
                       /\ p.h.image_cache[KeyOf(r)] = 0
                       /\ p.h.images = images /\ p.h.allocated = allocated)
    /\ [][(panic = "" /\ panic' = "decode") =>
              /\ image_cache' = image_cache
              /\ allocated' = allocated
              /\ \A k \in ImageCacheKeys : image_cache'[k] # 0 =>
                     (image_cache'[k] <= allocated' /\ KeyOf(images'[image_cache'[k]].origin) = k /\ Decodable(images'[image_cache'[k]].origin))]_vars

\* The load of the rejected file has failed while the cache holds the live
\* image of another resource; the key of the rejected file is vacant.
C26_Witness ==
    /\ panic = "decode"
    /\ source["image1"] = AbsoluteFilePath(corrupt_path)
    /\ image_cache[ImageCacheKey_Path(corrupt_path)] = 0
    /\ \E k \in ImageCacheKeys : Alive(HeapIn(TRUE), image_cache[k])

\* C27: the cursor of draw_text_input.  The cursor rectangle is filled
\* only when the cursor position is >= 0 and the cursor is visible; its x
\* is the x of the measured glyph whose byte index is the cursor position
\* and, when no glyph is there (the cursor is past the end), the x of the
\* end of the drawn text, for every horizontal alignment.
C27_CursorX ==
    (last_draw.call = "draw_text_input" /\ last_draw.cursor_rect.drawn) =>
        LET item == last_draw.item
            fill == last_draw.fills[1]
            glyphs == TextMetrics(fill).glyphs
        IN  /\ item.cursor_position >= 0 /\ item.cursor_visible
            /\ \A n \in DOMAIN glyphs : glyphs[n].byte_index = item.cursor_position => last_draw.cursor_rect.x = glyphs[n].x
            /\ (\A n \in DOMAIN glyphs : glyphs[n].byte_index # item.cursor_position) =>
                   last_draw.cursor_rect.x = fill.x + MeasureWidth(fill.text)

\* The glyph of the character that ends at byte offset b.
GlyphBefore(glyphs, b) == CHOOSE n \in DOMAIN glyphs : glyphs[n].byte_index < b /\ \A m \in DOMAIN glyphs : glyphs[m].byte_index < b => m <= n

\* C28: the selection rectangle of draw_text_input spans from the x of the
\* glyph at the anchor to the end x of the glyph immediately preceding the
\* cursor, its height is one font line height and its width is not
\* negative, whatever the byte length of the preceding character.
C28_SelectionRect ==
    (last_draw.call = "draw_text_input" /\ last_draw.selection_rect.drawn) =>
        LET item == last_draw.item
            glyphs == TextMetrics(last_draw.fills[1]).glyphs
            anchor_pos == selection_anchor_and_cursor(item)[1]
            cursor_pos == selection_anchor_and_cursor(item)[2]
            last == GlyphBefore(glyphs, cursor_pos)
        IN  /\ anchor_pos < cursor_pos
            /\ \A n \in DOMAIN glyphs : glyphs[n].byte_index = anchor_pos => last_draw.selection_rect.x = glyphs[n].x
            /\ last_draw.selection_rect.x + last_draw.selection_rect.width = glyphs[last].x + glyphs[last].advance_x
            /\ last_draw.selection_rect.height = FontMetrics.height
            /\ last_draw.selection_rect.width >= 0

\* C29: draw_text without wrapping and with overflow = clip passes every
\* line to the canvas as it is, also a line wider than max_width; only
\* overflow = elide shortens the drawn string.
C29_ClipDrawsFullLine ==
    (/\ last_draw.call = "draw_text"
     /\ last_draw.item.wrap = "no_wrap" /\ last_draw.item.overflow = "clip"
     /\ last_draw.item.width > 0 /\ last_draw.item.height > 0) =>
        /\ Len(last_draw.fills) = Len(lines(last_draw.item.text))
        /\ \A n \in DOMAIN last_draw.fills : last_draw.fills[n].text = lines(last_draw.item.text)[n]

\* The calls that are not draw primitives.
StateCalls == {"save_state", "restore_state", "combine_clip"}

\* C30: every draw primitive leaves the depth of the canvas state stack,
\* the transform and the scissor as it found them.  Only save_state,
\* restore_state and combine_clip change them: save_state pushes a copy of
\* the current state, restore_state pops it, combine_clip narrows the
\* current scissor and leaves the depth and the transform alone.  A
\* primitive between a save_state and its restore_state leaves the stack
\* balanced.
C30_PrimitivesKeepCanvasState ==
    /\ []("ops" \in DOMAIN last_draw =>
            /\ RunCanvas(last_draw.ops, canvas_state) = canvas_state
            /\ restore_state(RunCanvas(last_draw.ops, save_state(canvas_state))) = canvas_state
            /\ restore_state(RunCanvas(last_draw.ops, combine_clip(save_state(canvas_state), "clip_rect"))) = canvas_state)
    /\ [][/\ last_draw'.call \notin StateCalls => canvas_state' = canvas_state
          /\ last_draw'.call = "save_state" =>
                 (canvas_state' # canvas_state => canvas_state' = Append(canvas_state, canvas_state[Len(canvas_state)]))
          /\ (last_draw'.call = "restore_state" /\ canvas_state' # canvas_state) =>
                 canvas_state' = IF Len(canvas_state) > 1 THEN SubSeq(canvas_state, 1, Len(canvas_state) - 1) ELSE <<DefaultCanvasState>>
          /\ last_draw'.call = "combine_clip" =>
                 /\ Len(canvas_state') = Len(canvas_state)
                 /\ \A n \in 1..(Len(canvas_state) - 1) : canvas_state'[n] = canvas_state[n]
                 /\ canvas_state'[Len(canvas_state)].transform = canvas_state[Len(canvas_state)].transform
                 /\ canvas_state[Len(canvas_state)].scissor \subseteq canvas_state'[Len(canvas_state)].scissor]_vars

\* A text input with a selection has been drawn, with its own save and
\* restore, inside a state the caller saved and clipped.
C30_Witness ==
    /\ Running
    /\ last_draw.call = "draw_text_input"
    /\ "save" \in Range(last_draw.ops) /\ "restore" \in Range(last_draw.ops)
    /\ Len(canvas_state) = 2
    /\ canvas_state[1].scissor = {} /\ canvas_state[2].scissor = {"clip_rect"}

\* The cache keys a request with a fallback chain asks for, primary first.
RequestedKeys(request, scale_factor, chain) ==
    <<[family |-> request.family, weight |-> resolve_request(request, scale_factor).weight]>>
        \o [n \in DOMAIN chain |-> [family |-> chain[n], weight |-> resolve_request(request, scale_factor).weight]]

\* C31: the GLFont returned for a request lists the handle of the primary
\* family first and then the handles of the fallbacks in chain order.  Each
\* of them comes from the memoized loader: a key already in the cache is
\* not loaded again, a new key is loaded once.  The loader asks the
\* application fonts first and the system only when they have none.  The
\* fallback chain is the one of the request at hand.
C31_FontAndFallbacks ==
    Running =>
        /\ \A request \in FontRequests, scale_factor \in ScaleFactors, chain \in FallbackChains :
               LET f == font(FontHeap, request, scale_factor, chain)
                   keys == RequestedKeys(request, scale_factor, chain)
                   new == {keys[n] : n \in DOMAIN keys} \ {k \in FontCacheKeys : loaded_fonts[k] # 0}
               IN  /\ f.h.panic = ""
                   /\ Len(f.ret.fonts) = 1 + Len(chain)
                   /\ \A n \in DOMAIN keys : f.ret.fonts[n] = f.h.loaded_fonts[keys[n]] /\ f.ret.fonts[n] # 0
                   /\ \A k \in FontCacheKeys :
                          /\ loaded_fonts[k] # 0 => (f.h.loaded_fonts[k] = loaded_fonts[k] /\ f.h.loader_runs[k] = loader_runs[k])
                          /\ k \in new => f.h.loader_runs[k] = loader_runs[k] + 1
                          /\ (loaded_fonts[k] = 0 /\ k \notin new) => f.h.loaded_fonts[k] = 0
                   /\ Cardinality({j \in DOMAIN f.h.ops : f.h.ops[j] = "try_load_app_font"}) = Cardinality(new)
                   /\ Cardinality({j \in DOMAIN f.h.ops : f.h.ops[j] = "load_system_font"}) = Cardinality({k \in new : k.family \notin app_fonts})
                   /\ \A j \in DOMAIN f.h.ops : f.h.ops[j] = "load_system_font" => (j > 1 /\ f.h.ops[j - 1] = "try_load_app_font")
                   /\ \A other \in FallbackChains : Len(font(f.h, request, scale_factor, other).ret.fonts) = 1 + Len(other)
        /\ last_font.scale_factor # 0 =>
               LET keys == RequestedKeys(last_font.request, last_font.scale_factor, last_font.chain)
               IN  /\ Len(last_font.font.fonts) = Len(keys)
                   /\ \A n \in DOMAIN keys : last_font.font.fonts[n] = loaded_fonts[keys[n]] /\ loaded_fonts[keys[n]] # 0

\* A request with two fallbacks, the second one the primary family itself,
\* was answered after a request with a different chain.
C31_Witness ==
    /\ Running
    /\ last_font.chain = <<"Noto", "Sans">>
    /\ Len(last_font.font.fonts) = 3
    /\ last_font.font.fonts[1] = last_font.font.fonts[3]
    /\ last_font.font.fonts[2] # last_font.font.fonts[1]
    /\ "Noto" \in app_fonts /\ "Sans" \notin app_fonts

\* The slot holds the same image, validly, before and after the step.
SlotKeeps(s, i) ==
    /\ item_graphics_cache[s].cache_ok /\ item_graphics_cache[s].entry = i
    /\ item_graphics_cache'[s].cache_ok /\ item_graphics_cache'[s].entry = i

\* C32: an image referenced by a valid item cache slot survives every
\* frame-end pass.  In every step (new_renderer, a draw, image_size,
\* flush_renderer, a change of another item) over which a slot stays valid
\* with the same image, the image stays alive with its cache entry in
\* place, no second image is decoded for its resource, and once uploaded it
\* keeps its GPU id, which is never deleted.
C32_HeldImageSurvivesFrames ==
    [][Running' =>
          \A s \in ImageSlots, i \in ImageIndex :
              (i <= allocated /\ SlotKeeps(s, i)) =>
                  /\ images[i].strong > 0 /\ images'[i].strong > 0
                  /\ images'[i].origin = images[i].origin
                  /\ image_cache[KeyOf(images[i].origin)] = i
                  /\ image_cache'[KeyOf(images[i].origin)] = i
                  /\ \A j \in (allocated + 1)..allocated' : images'[j].origin # images[i].origin
                  /\ images[i].data = "GPUSide" =>
                         /\ images'[i].data = "GPUSide" /\ images'[i].id = images[i].id
                         /\ first_id'[i] = images[i].id
                         /\ canvas_images'[images[i].id] # <<>>
                         /\ delete_calls'[images[i].id] = 0
                  /\ images'[i].data = "GPUSide" => delete_calls'[images'[i].id] = 0]_vars

\* After a frame has ended, the image of the first item is still on the
\* GPU under its first id and in the cache, while the entry of an image
\* nobody holds any more has been collected.
C32_Witness ==
    /\ Running /\ ~frame_open
    /\ \E i \in 1..allocated :
           /\ item_graphics_cache["image1"].cache_ok /\ item_graphics_cache["image1"].entry = i
           /\ images[i].data = "GPUSide" /\ first_id[i] = images[i].id
           /\ image_cache[KeyOf(images[i].origin)] = i
    /\ \E j \in 1..allocated : images[j].strong = 0 /\ image_cache[KeyOf(images[j].origin)] = 0

\* C33: GLFontMetrics::height returns the line height of the font for
\* every font request, also for one whose (family, weight) is not in the
\* font cache yet: it does not fail on a canvas that is already borrowed.
C33_HeightOfAnyFont ==
    Running =>
        \A request \in FontRequests, scale_factor \in ScaleFactors, chain \in FallbackChains :
            LET f == GLFontMetrics_height(FontHeap, request, scale_factor, chain)
            IN  f.h.panic = "" /\ f.ret = FontMetrics.height

\* ------------------------------------------------------------ RefCell borrows
\* The cells of the renderer's shared data.  Every CachedImage has a cell of
\* its own; no operation holds two of them at once, so one name stands for
\* the cell of the image at hand.
Cells == {"item_graphics_cache", "image_cache", "loaded_fonts", "CachedImage", "canvas"}

\* The steps of a borrow trace: cell.borrow_mut(), cell.borrow(), and the
\* drop of the guard either of them returned.
BorrowMut(cell) == <<[ev |-> "borrow_mut", cell |-> cell]>>

Borrow(cell) == <<[ev |-> "borrow", cell |-> cell]>>

Release(cell) == <<[ev |-> "release", cell |-> cell]>>

\* The borrow flag of a RefCell: -1 while it is mutably borrowed, else the
\* number of shared borrows.
NoBorrows == [c \in Cells |-> 0]

RECURSIVE BorrowError(_, _)
\* Some step of the trace panics: borrow_mut() of a cell that is borrowed,
\* or borrow() of a cell that is mutably borrowed.
BorrowError(trace, flags) ==
    LET Then(e, f) ==
            IF e.ev = "borrow_mut" THEN f # 0 \/ BorrowError(Tail(trace), [flags EXCEPT ![e.cell] = -1])
            ELSE IF e.ev = "borrow" THEN f < 0 \/ BorrowError(Tail(trace), [flags EXCEPT ![e.cell] = f + 1])
            ELSE BorrowError(Tail(trace), [flags EXCEPT ![e.cell] = IF f < 0 THEN 0 ELSE f - 1])
    IN  IF trace = <<>> THEN FALSE ELSE Then(Head(trace), flags[Head(trace).cell])

\* The borrows of GLRendererData::load_cached_item_image on slot s: the item
\* graphics cache stays mutably borrowed while ensure_up_to_date runs.  On a
\* stale slot that is the source property getter (getter: the borrows it
\* makes itself), load_image_resource (the image cache mutably borrowed
\* around the image create function, which creates an empty canvas image for
\* an HTML image), and the drop of the displaced entry (Drop for ImageData
\* deletes a GPU-side image from the canvas).
borrows_load_cached_item_image(h, s, r, getter) ==
    LET old == h.item_graphics_cache[s].entry
        Created == IF r.kind = "AbsoluteFilePath" /\ platform # "native" THEN BorrowMut("canvas") \o Release("canvas") ELSE <<>>
        Loaded == IF ~HasKey(r) THEN <<>>
                  ELSE BorrowMut("image_cache") \o (IF Alive(h, h.image_cache[KeyOf(r)]) THEN <<>> ELSE Created) \o Release("image_cache")
        Dropped(p) == IF ~Stopped(p.h) /\ old # 0 /\ old # p.ret /\ p.h.images[old].strong = 1 /\ p.h.images[old].data = "GPUSide"
                      THEN BorrowMut("canvas") \o Release("canvas") ELSE <<>>
    IN  BorrowMut("item_graphics_cache")
            \o (IF h.item_graphics_cache[s].cache_ok THEN <<>> ELSE getter \o Loaded \o Dropped(image_producer(h, s, r)))
            \o Release("item_graphics_cache")

\* The borrows of GLRenderer::image_size: load_cached_item_image, then
\* CachedImage::size, which borrows the image and, for an uploaded GPU-side
\* image, the canvas (shared) to ask for the image info.
borrows_image_size(h, s, r, getter) ==
    LET Sized(c) ==
            IF Stopped(c.h) \/ c.ret = 0 THEN <<>>
            ELSE Borrow("CachedImage")
                     \o (IF c.h.images[c.ret].data = "GPUSide" /\ c.h.images[c.ret].upload_pending # "true" THEN Borrow("canvas") \o Release("canvas") ELSE <<>>)
                     \o Release("CachedImage")
    IN  borrows_load_cached_item_image(h, s, r, getter) \o Sized(load_cached_item_image(h, s, r))

\* The borrows of GLItemRenderer::draw_image_impl: load_cached_item_image
\* with the plain getter, ensure_uploaded_to_gpu (the image mutably borrowed
\* around canvas.borrow_mut().create_image for a CPU-side image),
\* CachedImage::size, and canvas.borrow_mut().save_with.
borrows_draw_image_impl(h, s, r, target_width, target_height) ==
    LET Uploaded(c) ==
            IF Stopped(c.h) \/ c.ret = 0 THEN <<>>
            ELSE BorrowMut("CachedImage")
                     \o (IF c.h.images[c.ret].data = "CPUSide" THEN BorrowMut("canvas") \o Release("canvas") ELSE <<>>)
                     \o Release("CachedImage")
        Filled(c, u) ==
            IF Stopped(c.h) \/ c.ret = 0 \/ Stopped(u.h) THEN <<>>
            ELSE Borrow("CachedImage")
                     \o (IF u.h.images[c.ret].upload_pending # "true" THEN Borrow("canvas") \o Release("canvas") ELSE <<>>)
                     \o Release("CachedImage")
                     \o BorrowMut("canvas") \o Release("canvas")
        Drawn(c) == Uploaded(c) \o Filled(c, IF Stopped(c.h) \/ c.ret = 0 THEN c ELSE ensure_uploaded_to_gpu(c.h, c.ret))
    IN  IF target_width <= 0 \/ target_height < 0 THEN <<>>
        ELSE borrows_load_cached_item_image(h, s, r, <<>>) \o Drawn(load_cached_item_image(h, s, r))

\* The borrows of GLFontMetrics::height: the receiver canvas.borrow_mut() is
\* taken first, then the argument self.font() borrows the font cache and,
\* for every requested (family, weight) the cache does not hold, the loader
\* borrows the canvas to add the font.
borrows_GLFontMetrics_height(h, request, scale_factor, chain) ==
    LET keys == RequestedKeys(request, scale_factor, chain)
        RECURSIVE Loads(_)
        Loads(n) == IF n > Len(keys) THEN <<>>
                    ELSE (IF h.loaded_fonts[keys[n]] = 0 THEN BorrowMut("canvas") \o Release("canvas") ELSE <<>>) \o Loads(n + 1)
    IN  BorrowMut("canvas") \o BorrowMut("loaded_fonts") \o Loads(1) \o Release("loaded_fonts") \o Release("canvas")

\* GLRenderer::image_size of slot s when the binding of its source property
\* asks for the size of the image item in slot other (source.get()
\* evaluates the binding inside the getter closure, which runs only on a
\* stale slot).
image_size_nested(h, s, r, other) ==
    IF BorrowError(borrows_image_size(h, s, r, borrows_image_size(h, other, source[other], <<>>)), NoBorrows)
    THEN Ret(Panic(Log([h EXCEPT !.productions[s] = @ + 1], "source_property_getter"), "already borrowed"), <<0, 0>>)
    ELSE image_size(h, s, r)

\* image_size of an image item whose source binding reads the size of
\* another image item.
ImageSizeNested(s, other) ==
    /\ Running
    /\ \E d \in {image_size_nested(HeapIn(TRUE), s, source[s], other)} :
           /\ ~d.h.full
           /\ SetHeap(d.h)
    /\ UNCHANGED <<platform, frame_open, window_size, source, first_id>>

\* Frames, image items, and source bindings that read another item's size.
NextBorrow ==
    \/ Next
    \/ \E s \in ImageSlots, other \in ImageSlots : ImageSizeNested(s, other) /\ UNCHANGED <<font_vars, last_draw>>

SpecBorrow == Init /\ [][NextBorrow]_vars

\* C34: no operation requests a mutable borrow of the item graphics cache,
\* the image cache, the font cache, a CachedImage or the canvas while that
\* cell is already borrowed: not image_size or draw_image_impl, with a plain
\* source getter or with one that itself calls image_size, not the drop of
\* a displaced image, and not GLFontMetrics::height.
C34_NoDoubleBorrow ==
    /\ panic # "already borrowed"
    /\ Running =>
           /\ \A s \in ImageSlots :
                  /\ ~BorrowError(borrows_image_size(HeapIn(TRUE), s, source[s], <<>>), NoBorrows)
                  /\ \A other \in ImageSlots :
                         ~BorrowError(borrows_image_size(HeapIn(TRUE), s, source[s], borrows_image_size(HeapIn(TRUE), other, source[other], <<>>)), NoBorrows)
                  /\ frame_open => \A tw \in TargetLengths : ~BorrowError(borrows_draw_image_impl(HeapIn(TRUE), s, source[s], tw, 50), NoBorrows)
           /\ \A request \in FontRequests, scale_factor \in ScaleFactors, chain \in FallbackChains :
                  ~BorrowError(borrows_GLFontMetrics_height(FontHeap, request, scale_factor, chain), NoBorrows)

\* The borrows of the image operations alone, with the plain source getter:
\* the part of C34 that the drop of a displaced image belongs to.
PlainGetterBorrowsAreSafe ==
    Running =>
        \A s \in ImageSlots :
            /\ ~BorrowError(borrows_image_size(HeapIn(TRUE), s, source[s], <<>>), NoBorrows)
            /\ frame_open => \A tw \in TargetLengths : ~BorrowError(borrows_draw_image_impl(HeapIn(TRUE), s, source[s], tw, 50), NoBorrows)

\* C35: for every non-empty border rectangle geometry and every border
\* width >= 0, the inner rounded rectangle draw_border_rectangle builds has
\* a non-negative width and a non-negative height.
C35_InnerRectangleNonNegative ==
    (/\ last_draw.call = "draw_border_rectangle"
     /\ ~is_empty(last_draw.item.width, last_draw.item.height)
     /\ last_draw.item.border_width >= 0)
        => last_draw.path.width >= 0 /\ last_draw.path.height >= 0

====
